---------------------------- MODULE Spec2Model ----------------------------
(***************************************************************************)
(* Web Pilot (src/src/pilot.js): a poll loop that reads a command from a   *)
(* command file, dispatches it against a browser and writes the result to  *)
(* a result file.                                                          *)
(*                                                                         *)
(* Texts (file contents, commands, results) are sequences of one-character *)
(* strings, so that trim, toLowerCase, startsWith, substring and split are *)
(* computed as the JavaScript computes them.  A value the program cannot   *)
(* look into (a page title, an error message of the browser library, a     *)
(* path) is one element of such a sequence, written "<...>".               *)
(***************************************************************************)
EXTENDS Integers, Sequences, FiniteSets, TLC

(***************************************************************************)
(* Bounds of the model.                                                    *)
(***************************************************************************)
\* how many times the external writer writes or removes the command file
MaxWrites == 2

\* the same, in the specification with fairness
MaxLiveWrites == 1

\* the same, in the specification of command sequences
MaxSeqWrites == 3

\* how many reads of the command file fail
MaxReadErrors == 1

(***************************************************************************)
(* String primitives of JavaScript used by the program.                    *)
(***************************************************************************)
WhiteSpace == {" ", "\n", "\t"}

UpperCase == <<"A", "B", "C", "D", "E", "F", "G", "H", "I", "J", "K", "L", "M", "N", "O", "P", "Q", "R", "S", "T", "U", "V", "W", "X", "Y", "Z">>

LowerCase == <<"a", "b", "c", "d", "e", "f", "g", "h", "i", "j", "k", "l", "m", "n", "o", "p", "q", "r", "s", "t", "u", "v", "w", "x", "y", "z">>

Digits == <<"0", "1", "2", "3", "4", "5", "6", "7", "8", "9">>

\* String.prototype.trim
RECURSIVE trimStart(_)
trimStart(s) ==
    IF s # <<>> /\ Head(s) \in WhiteSpace THEN trimStart(Tail(s)) ELSE s

RECURSIVE trimEnd(_)
trimEnd(s) ==
    IF s # <<>> /\ s[Len(s)] \in WhiteSpace
    THEN trimEnd(SubSeq(s, 1, Len(s) - 1))
    ELSE s

trim(s) == trimEnd(trimStart(s))

\* the lower-case letter of each upper-case letter
lowerOf ==
    [c \in {UpperCase[i] : i \in 1..26} |->
        LowerCase[CHOOSE i \in 1..26 : UpperCase[i] = c]]

lowerChar(c) == IF c \in DOMAIN lowerOf THEN lowerOf[c] ELSE c

\* the mutant of toLowerCase: the text as it is
toLowerCaseKeep(s) == s

\* String.prototype.toLowerCase
toLowerCase(s) == [i \in 1..Len(s) |-> lowerChar(s[i])]

\* the mutant of startsWith: the letters are compared in any case
startsWithAnyCase(s, p) ==
    Len(s) >= Len(p) /\ [i \in 1..Len(p) |-> lowerChar(s[i])] = p

\* String.prototype.startsWith
startsWith(s, p) == Len(s) >= Len(p) /\ SubSeq(s, 1, Len(p)) = p

\* the mutant of substring: the rest of the text is put in lower case
substringLowerCase(s, n) == toLowerCase(SubSeq(s, n + 1, Len(s)))

\* String.prototype.substring(n)
substring(s, n) == SubSeq(s, n + 1, Len(s))

\* String.prototype.split(':'): the pieces between the colons
RECURSIVE split(_)
split(s) ==
    IF \E i \in 1..Len(s) : s[i] = ":"
    THEN LET i == CHOOSE k \in 1..Len(s) :
                      s[k] = ":" /\ \A j \in 1..(k - 1) : s[j] # ":"
         IN  <<SubSeq(s, 1, i - 1)>> \o split(SubSeq(s, i + 1, Len(s)))
    ELSE <<s>>

\* the mutant of join: the first piece only
joinFirst(parts) == IF parts = <<>> THEN <<>> ELSE parts[1]

\* Array.prototype.join(':')
RECURSIVE join(_)
join(parts) ==
    IF parts = <<>> THEN <<>>
    ELSE IF Len(parts) = 1 THEN parts[1]
    ELSE parts[1] \o <<":">> \o join(Tail(parts))

digitValue(c) == (CHOOSE i \in 1..10 : Digits[i] = c) - 1

isDigit(c) == \E i \in 1..10 : Digits[i] = c

RECURSIVE digitsValue(_, _)
digitsValue(s, acc) ==
    IF s # <<>> /\ isDigit(Head(s))
    THEN digitsValue(Tail(s), 10 * acc + digitValue(Head(s)))
    ELSE acc

\* parseInt(s) in radix 10: leading white space, a sign, then the longest run
\* of digits; <<n>> for the number n and <<>> for NaN, when there is no digit.
\* (The texts of the model hold no "0x" prefix, the one case in which parseInt
\* chooses radix 16.)
NaN == <<>>

parseInt(s) ==
    LET t == trimStart(s)
        neg == t # <<>> /\ Head(t) = "-"
        u == IF t # <<>> /\ Head(t) \in {"-", "+"} THEN Tail(t) ELSE t
    IN  IF u = <<>> \/ ~isDigit(Head(u)) THEN NaN
        ELSE IF neg THEN <<0 - digitsValue(u, 0)>> ELSE <<digitsValue(u, 0)>>

RECURSIVE natToString(_)
natToString(n) ==
    IF n < 10 THEN <<Digits[n + 1]>>
    ELSE natToString(n \div 10) \o <<Digits[(n % 10) + 1]>>

\* the template literal's conversion of a number
numberToString(n) == IF n < 0 THEN <<"-">> \o natToString(0 - n) ELSE natToString(n)

(***************************************************************************)
(* The browser capability (Playwright) and the file system are outside the *)
(* program.  What they do during one command is an environment record      *)
(*   ok   : ok[i] is whether the i-th fallible call of the command         *)
(*          succeeds (a call that is not made leaves its entry unused)     *)
(*   dest : the URL the page shows once the command has ended              *)
(***************************************************************************)
AboutBlank == <<"<about:blank>">>

SiteU == <<"u">>

SiteUSlash == <<"u", "/">>

\* where a navigation can end
Sites == {SiteU, SiteUSlash}

URLs == {AboutBlank} \cup Sites

ErrMessage == <<"<err.message>">>

PageTitle == <<"<title>">>

PageText == <<"<innerText>">>

WorkDirPath(name) == <<"<workDir>/">> \o name

Return(v) == [kind |-> "return", value |-> v, sleepMs |-> 0]

Throw(m) == [kind |-> "throw", value |-> m, sleepMs |-> 0]

\* the mutant of Exit: quit returns a text instead of ending the process
ExitWithResult(code) ==
    [kind |-> "return", value |-> <<"B", "r", "o", "w", "s", "e", "r", " ", "c", "l", "o", "s", "e", "d">>, sleepMs |-> 0]

Exit(code) == [kind |-> "exit", value |-> <<>>, sleepMs |-> 0]

\* takeScreenshot: page.screenshot, then the path
takeScreenshot(env) ==
    IF env.ok[1]
    THEN Return(<<"S", "c", "r", "e", "e", "n", "s", "h", "o", "t", " ", "s", "a", "v", "e", "d", ":", " ">> \o WorkDirPath(<<"screenshot-<Date.now>.png">>))
    ELSE Throw(ErrMessage)

\* extractText: page.evaluate, fs.writeFileSync(page-text.txt), the text
extractText(env) ==
    IF env.ok[1] /\ env.ok[2] THEN Return(PageText) ELSE Throw(ErrMessage)

\* saveHtml: page.content, fs.writeFileSync(page.html), the path
saveHtml(env) ==
    IF env.ok[1] /\ env.ok[2]
    THEN Return(<<"H", "T", "M", "L", " ", "s", "a", "v", "e", "d", ":", " ">> \o WorkDirPath(<<"p", "a", "g", "e", ".", "h", "t", "m", "l">>))
    ELSE Throw(ErrMessage)

\* extractTables: page.evaluate, fs.writeFileSync(tables.txt); an empty
\* extraction (no table on the page: env.empty) is reported in words
extractTables(env) ==
    IF env.ok[1] /\ env.ok[2]
    THEN Return(IF env.empty THEN <<"N", "o", " ", "t", "a", "b", "l", "e", "s", " ", "f", "o", "u", "n", "d", " ", "o", "n", " ", "p", "a", "g", "e">> ELSE <<"<tables>">>)
    ELSE Throw(ErrMessage)

\* clickElement: the selector first, then the visible text, then the wait
\* for the load state
clickElement(selector, env) ==
    IF ~env.ok[1] /\ ~env.ok[2] THEN Throw(ErrMessage)
    ELSE IF ~env.ok[3] THEN Throw(ErrMessage)
    ELSE Return(<<"C", "l", "i", "c", "k", "e", "d", ":", " ">> \o selector)

\* extractLinks keeps the first 50 links (line 588)
LinkLimit == 50

\* the most a[href] elements a page of the model holds
MaxAnchors == 52

\* The a[href] elements of a page are described by their number n and by a
\* pattern that repeats along the document: whether the anchor shows a text
\* and whether its href property is non-empty.
AnchorPatterns ==
    << << [text |-> TRUE, href |-> TRUE] >>,
       << [text |-> TRUE, href |-> TRUE], [text |-> FALSE, href |-> TRUE] >>,
       << [text |-> TRUE, href |-> FALSE], [text |-> TRUE, href |-> TRUE],
          [text |-> FALSE, href |-> TRUE] >> >>

NoAnchors == [n |-> 0, pattern |-> 1]

\* document.querySelectorAll('a[href]') with innerText and href of each
\* element; a shown text has white space around it, a missing one is blank
pageAnchors(d) ==
    LET pattern == AnchorPatterns[d.pattern] IN
    [i \in 1..d.n |->
        LET k == pattern[((i - 1) % Len(pattern)) + 1] IN
        [innerText |-> IF k.text THEN <<" ", "L">> \o natToString(i) \o <<" ">> ELSE <<" ", " ">>,
         href |-> IF k.href THEN <<"h">> \o natToString(i) ELSE <<>>]]

\* Array.prototype.join('\n')
RECURSIVE joinLines(_)
joinLines(parts) ==
    IF parts = <<>> THEN <<>>
    ELSE IF Len(parts) = 1 THEN parts[1]
    ELSE parts[1] \o <<"\n">> \o joinLines(Tail(parts))

\* Array.prototype.slice(0, n)
slice(a, n) == SubSeq(a, 1, IF Len(a) < n THEN Len(a) ELSE n)

\* the mutant of extractLinks: without the slice
extractLinksUnlimited(env) ==
    IF ~env.ok[1] THEN Throw(ErrMessage)
    ELSE
      LET anchors == pageAnchors(env.anchors)
          mapped == [i \in 1..Len(anchors) |->
                        [text |-> trim(anchors[i].innerText), href |-> anchors[i].href]]
          kept(l) == l.text # <<>> /\ l.href # <<>>
          links == SelectSeq(mapped, kept)
          formatted == joinLines([i \in 1..Len(links) |->
                                    links[i].text \o <<":", " ">> \o links[i].href])
      IN  Return(<<"F", "o", "u", "n", "d", " ">> \o numberToString(Len(links)) \o <<" ", "l", "i", "n", "k", "s", ":", "\n">> \o formatted)

\* extractLinks (lines 583-593): page.evaluate maps, filters and slices the
\* anchors; the result is the count and one line per link
extractLinks(env) ==
    IF ~env.ok[1] THEN Throw(ErrMessage)
    ELSE
      LET anchors == pageAnchors(env.anchors)
          mapped == [i \in 1..Len(anchors) |->
                        [text |-> trim(anchors[i].innerText), href |-> anchors[i].href]]
          kept(l) == l.text # <<>> /\ l.href # <<>>
          links == slice(SelectSeq(mapped, kept), LinkLimit)
          formatted == joinLines([i \in 1..Len(links) |->
                                    links[i].text \o <<":", " ">> \o links[i].href])
      IN  Return(<<"F", "o", "u", "n", "d", " ">> \o numberToString(Len(links)) \o <<" ", "l", "i", "n", "k", "s", ":", "\n">> \o formatted)

\* the mutant of clickCalls: the visible text is tried first
clickCallsTextFirst(selector, env) ==
    << <<"page.click">> \o <<"t", "e", "x", "t", "=">> \o selector >>
    \o (IF env.ok[2] THEN <<>> ELSE << <<"page.click">> \o selector >>)
    \o (IF env.ok[1] \/ env.ok[2] THEN << <<"page.waitForLoadState">> >> ELSE <<>>)

\* the browser calls that clickElement makes, in order (lines 599-606): the
\* second click is in the catch of the first, the wait follows the try
clickCalls(selector, env) ==
    << <<"page.click">> \o selector >>
    \o (IF env.ok[1] THEN <<>> ELSE << <<"page.click">> \o <<"t", "e", "x", "t", "=">> \o selector >>)
    \o (IF env.ok[1] \/ env.ok[2] THEN << <<"page.waitForLoadState">> >> ELSE <<>>)

ScrollDirections == {<<"u", "p">>, <<"d", "o", "w", "n">>, <<"t", "o", "p">>, <<"b", "o", "t", "t", "o", "m">>}

\* the mutant of scroll: every direction is handed to page.evaluate
scrollAnyDirection(direction, env) ==
    IF ~env.ok[1] THEN Throw(ErrMessage) ELSE Return(<<"S", "c", "r", "o", "l", "l", "e", "d", " ">> \o direction)

\* scroll: one page.evaluate for a known direction, none otherwise
scroll(direction, env) ==
    IF direction \in ScrollDirections
    THEN IF ~env.ok[1] THEN Throw(ErrMessage)
         ELSE Return(CASE direction = <<"u", "p">> -> <<"S", "c", "r", "o", "l", "l", "e", "d", " ", "u", "p">>
                       [] direction = <<"d", "o", "w", "n">> -> <<"S", "c", "r", "o", "l", "l", "e", "d", " ", "d", "o", "w", "n">>
                       [] direction = <<"t", "o", "p">> -> <<"S", "c", "r", "o", "l", "l", "e", "d", " ", "t", "o", " ", "t", "o", "p">>
                       [] OTHER -> <<"S", "c", "r", "o", "l", "l", "e", "d", " ", "t", "o", " ", "b", "o", "t", "t", "o", "m">>)
    ELSE Return(<<"U", "n", "k", "n", "o", "w", "n", " ", "s", "c", "r", "o", "l", "l", " ", "d", "i", "r", "e", "c", "t", "i", "o", "n", ":", " ">> \o direction)

(***************************************************************************)
(* executeCommand (pilot.js 428-524).  dispatch is the body of its try     *)
(* block: the exact tags are compared with the lower-cased text, the       *)
(* prefixed tags with the text as read.  url is page.url() before the      *)
(* command; env.dest is page.url() after a navigation.                     *)
(***************************************************************************)
isQuit(command) == toLowerCase(command) = <<"q", "u", "i", "t">>

dispatch(command, env, url) ==
    LET cmd == toLowerCase(command) IN
    CASE cmd = <<"s", "c", "r", "e", "e", "n", "s", "h", "o", "t">> -> takeScreenshot(env)
      [] cmd = <<"t", "e", "x", "t">> -> extractText(env)
      [] cmd = <<"h", "t", "m", "l">> -> saveHtml(env)
      [] cmd = <<"u", "r", "l">> -> Return(<<"U", "R", "L", ":", " ">> \o url)
      [] cmd = <<"t", "i", "t", "l", "e">> ->
            IF env.ok[1] THEN Return(<<"T", "i", "t", "l", "e", ":", " ">> \o PageTitle) ELSE Throw(ErrMessage)
      [] cmd = <<"t", "a", "b", "l", "e", "s">> -> extractTables(env)
      [] cmd = <<"l", "i", "n", "k", "s">> -> extractLinks(env)
      [] cmd = <<"b", "a", "c", "k">> ->
            IF env.ok[1] THEN Return(<<"N", "a", "v", "i", "g", "a", "t", "e", "d", " ", "b", "a", "c", "k", " ", "t", "o", ":", " ">> \o env.dest)
            ELSE Throw(ErrMessage)
      [] cmd = <<"f", "o", "r", "w", "a", "r", "d">> ->
            IF env.ok[1] THEN Return(<<"N", "a", "v", "i", "g", "a", "t", "e", "d", " ", "f", "o", "r", "w", "a", "r", "d", " ", "t", "o", ":", " ">> \o env.dest)
            ELSE Throw(ErrMessage)
      [] cmd = <<"r", "e", "f", "r", "e", "s", "h">> ->
            IF env.ok[1] THEN Return(<<"R", "e", "f", "r", "e", "s", "h", "e", "d", ":", " ">> \o env.dest)
            ELSE Throw(ErrMessage)
      [] cmd = <<"q", "u", "i", "t">> ->
            \* browser.close() or context.close(), then process.exit(0)
            IF env.ok[1] THEN Exit(0) ELSE Throw(ErrMessage)
      [] startsWith(command, <<"g", "o", "t", "o", ":">>) ->
            IF env.ok[1] THEN Return(<<"N", "a", "v", "i", "g", "a", "t", "e", "d", " ", "t", "o", ":", " ">> \o env.dest)
            ELSE Throw(ErrMessage)
      [] startsWith(command, <<"c", "l", "i", "c", "k", ":">>) ->
            clickElement(trim(substring(command, 6)), env)
      [] startsWith(command, <<"t", "y", "p", "e", ":">>) ->
            LET parts == split(substring(command, 5))
                selector == trim(parts[1])
                text == trim(join(Tail(parts)))
            IN  IF env.ok[1]
                THEN Return(<<"T", "y", "p", "e", "d", " ", "\\", "\"">> \o text \o <<"\\", "\"", " ", "i", "n", "t", "o", " ">> \o selector)
                ELSE Throw(ErrMessage)
      [] startsWith(command, <<"w", "a", "i", "t", ":">>) ->
            LET n == parseInt(trim(substring(command, 5)))
                \* parseInt(...) || 2: NaN and 0 are falsy
                seconds == IF n = NaN \/ n = <<0>> THEN 2 ELSE n[1]
            IN  [kind |-> "return",
                 value |-> <<"W", "a", "i", "t", "e", "d", " ">> \o numberToString(seconds) \o <<" ", "s", "e", "c", "o", "n", "d", "s">>,
                 sleepMs |-> seconds * 1000]
      [] startsWith(command, <<"s", "c", "r", "o", "l", "l", ":">>) ->
            scroll(toLowerCase(trim(substring(command, 7))), env)
      [] OTHER -> Return(<<"E", "R", "R", "O", "R", ":", " ", "U", "n", "k", "n", "o", "w", "n", " ", "c", "o", "m", "m", "a", "n", "d", ":", " ">> \o command)

\* the mutant of executeCommand: the catch of lines 521-523 is missing
executeCommandNoCatch(command, env, url) == dispatch(command, env, url)

\* the mutant of executeCommand: the URL of the page is not read anew
executeCommandStaleUrl(command, env, url) ==
    LET r == dispatch(command, env, AboutBlank) IN
    IF r.kind = "throw" THEN Return(<<"E", "R", "R", "O", "R", ":", " ">> \o r.value) ELSE r

executeCommand(command, env, url) ==
    LET r == dispatch(command, env, url) IN
    IF r.kind = "throw" THEN Return(<<"E", "R", "R", "O", "R", ":", " ">> \o r.value) ELSE r

\* how many fallible calls (browser, then file system) the code of a command
\* holds; the entries of env.ok beyond them are not consulted
numCalls(command) ==
    LET cmd == toLowerCase(command) IN
    CASE cmd \in {<<"t", "e", "x", "t">>, <<"h", "t", "m", "l">>, <<"t", "a", "b", "l", "e", "s">>} -> 2
      [] cmd \in {<<"s", "c", "r", "e", "e", "n", "s", "h", "o", "t">>, <<"t", "i", "t", "l", "e">>, <<"l", "i", "n", "k", "s">>, <<"b", "a", "c", "k">>, <<"f", "o", "r", "w", "a", "r", "d">>,
                  <<"r", "e", "f", "r", "e", "s", "h">>, <<"q", "u", "i", "t">>} -> 1
      [] cmd = <<"u", "r", "l">> -> 0
      [] startsWith(command, <<"g", "o", "t", "o", ":">>) -> 1
      [] startsWith(command, <<"c", "l", "i", "c", "k", ":">>) -> 3
      [] startsWith(command, <<"t", "y", "p", "e", ":">>) -> 1
      [] startsWith(command, <<"w", "a", "i", "t", ":">>) -> 0
      [] startsWith(command, <<"s", "c", "r", "o", "l", "l", ":">>) ->
            IF toLowerCase(trim(substring(command, 7))) \in ScrollDirections
            THEN 1 ELSE 0
      [] OTHER -> 0

\* whether the command can move the page to another URL
navigates(command) ==
    \/ toLowerCase(command) \in {<<"b", "a", "c", "k">>, <<"f", "o", "r", "w", "a", "r", "d">>, <<"r", "e", "f", "r", "e", "s", "h">>}
    \/ startsWith(command, <<"g", "o", "t", "o", ":">>)
    \/ startsWith(command, <<"c", "l", "i", "c", "k", ":">>)

\* what the environment may do during a command
Envs(command, url) ==
    LET n == numCalls(command)
        click == startsWith(command, <<"c", "l", "i", "c", "k", ":">>)
        oks == { ok \in [1..3 -> BOOLEAN] :
                   /\ \A i \in 1..3 : i > n => ok[i]
                   /\ click => (ok[1] => ok[2]) /\ (~ok[1] /\ ~ok[2] => ok[3]) }
        empties == IF toLowerCase(command) = <<"t", "a", "b", "l", "e", "s">> THEN BOOLEAN ELSE {FALSE}
        dests == IF navigates(command) THEN Sites \cup {url} ELSE {url}
        anchors == IF toLowerCase(command) = <<"l", "i", "n", "k", "s">>
                   THEN [n : 0..MaxAnchors, pattern : 1..Len(AnchorPatterns)]
                   ELSE {NoAnchors}
    IN  [ok : oks, empty : empties, dest : dests, anchors : anchors]

(***************************************************************************)
(* The session: the fields of a WebPilot, the two files, the process.      *)
(***************************************************************************)
VARIABLES
    pc,          \* where the program is: "new", "inited", "launching",
                 \* "navigating", "sleep" (the poll loop awaits its timer),
                 \* "await" (the loop awaits executeCommand), "stopped" (the
                 \* loop has ended), "rejected" (start() threw), "exited"
    config,      \* this.config: Null before initialize(), then <<c>>, c in Configs
    initialUrl,  \* the argument of start() while start() runs: "none" or "given"
    running,     \* this.running
    lastCommand, \* this.lastCommand
    browser,     \* this.browser: "null", "open", "closed"
    context,     \* this.context: "null", "open", "closed"
    pageUrl,     \* page.url()
    executing,   \* the calls of executeCommand that have not ended yet, each
                 \* with what the environment does during it
    exitCode,    \* Alive while the process lives, else Exited(status)
    cmdFile,     \* content of the command file, or Missing
    resultFile,  \* content of the result file, or Missing
    writesLeft,  \* how many more times the external writer acts
    \* history, read by the properties only
    log,         \* the commands dispatched so far, in order
    sinceChange, \* dispatches since the content of the command file changed
    writeCalls,  \* calls of writeResult so far
    lastWrite,   \* the write of the result that is due (READY, then the one of
                 \* the command dispatched last): "none" until writeResult is
                 \* called, then "written" or "failed"
    closeCalls,  \* calls of browser.close() or context.close() so far
    results,     \* what the calls of executeCommand returned so far, in order
    readErrors,  \* failed reads of the command file swallowed so far
    client,      \* the call of sendCommand of the example: where it is, what it sent
    cli          \* main() of the command line: where it is, its arguments, what it parsed

vars == <<pc, config, initialUrl, running, lastCommand, browser, context, pageUrl,
          executing, exitCode, cmdFile, resultFile, writesLeft,
          log, sinceChange, writeCalls, lastWrite, closeCalls, results, readErrors,
          client, cli>>

Missing == <<"<no file>">>

Alive == <<>>

\* the process after process.exit(status)
Exited(status) == <<status>>

Null == <<>>

\* the contents the external writer puts into the command file
FileTexts ==
    { <<"t", "i", "t", "l", "e">>, <<" ", "t", "i", "t", "l", "e", "\n">>, <<"c", "l", "i", "c", "k", ":", "#", "a">>, <<"g", "o", "t", "o", ":", "u">>, <<"b", "o", "g", "u", "s">>,
      <<"q", "u", "i", "t">>, <<>> }

ReadyText == <<"R", "E", "A", "D", "Y", ":", " ", "B", "r", "o", "w", "s", "e", "r", " ", "i", "s", " ", "o", "p", "e", "n", " ", "a", "n", "d", " ", "w", "a", "i", "t", "i", "n", "g", " ", "f", "o", "r", " ", "c", "o", "m", "m", "a", "n", "d", "s", ".">>

Configs == [profile : BOOLEAN]

\* JavaScript's undefined and null
Undefined == <<"<undefined>">>

JsNull == <<"<null>">>

\* the config object parseArgs starts from (cli.js 83-92)
DefaultArgsConfig ==
    [url |-> JsNull, workDir |-> <<"<process.cwd()>">>, headless |-> FALSE,
     background |-> FALSE, selectProfile |-> FALSE, browser |-> JsNull,
     profile |-> Undefined, autoProfile |-> TRUE]

\* the session was not started by the command line
NoCli == [pc |-> "none", args |-> <<>>, config |-> DefaultArgsConfig,
          printed |-> "nothing"]

\* sendCommand of the example has not been called
NoCall == [pc |-> "idle", command |-> <<>>, sentAt |-> 0, doneAt |-> 0,
           returned |-> <<>>]

\* the state after new WebPilot(config) (pilot.js 183-192); the files are
\* whatever an earlier session left
Init ==
    /\ pc = "new"
    /\ config = Null
    /\ initialUrl = "none"
    /\ running = FALSE
    /\ lastCommand = <<>>
    /\ browser = "null"
    /\ context = "null"
    /\ pageUrl = AboutBlank
    /\ executing = <<>>
    /\ exitCode = Alive
    /\ cmdFile \in {Missing, <<"t", "i", "t", "l", "e">>}
    /\ resultFile = Missing
    /\ writesLeft = MaxWrites
    /\ log = <<>>
    /\ sinceChange = 0
    /\ writeCalls = 0
    /\ lastWrite = "none"
    /\ closeCalls = 0
    /\ results = <<>>
    /\ readErrors = 0
    /\ client = NoCall
    /\ cli = NoCli

\* the trimmed content of the command file as a poll would read it
content(file) == IF file = Missing THEN Missing ELSE trim(file)

(***************************************************************************)
(* Startup.                                                                *)
(***************************************************************************)
\* initialize() (pilot.js 197-248): sets this.config and the two paths
Initialize ==
    /\ pc = "new" /\ exitCode = Alive
    /\ \E c \in Configs : config' = <<c>>
    /\ pc' = "inited"
    /\ UNCHANGED <<initialUrl, running, lastCommand, browser, context, pageUrl,
                   executing, exitCode, cmdFile, resultFile, writesLeft, log, sinceChange,
                   writeCalls, lastWrite, closeCalls, results, readErrors, client, cli>>

\* start() on an object that was not initialized: this.config is null and
\* line 313 throws a TypeError, so the promise of start() is rejected
StartUninitialized ==
    /\ pc = "new" /\ exitCode = Alive
    /\ pc' = "rejected"
    /\ UNCHANGED <<config, initialUrl, running, lastCommand, browser, context, pageUrl,
                   executing, exitCode, cmdFile, resultFile, writesLeft, log,
                   sinceChange, writeCalls, lastWrite, closeCalls, results, readErrors, client, cli>>

\* start() up to its first await: the launch is under way (lines 312-350)
StartLaunch ==
    /\ pc = "inited" /\ exitCode = Alive
    /\ pc' = "launching"
    /\ initialUrl' \in {"none", "given"}
    /\ UNCHANGED <<config, running, lastCommand, browser, context, pageUrl,
                   executing, exitCode, cmdFile, resultFile, writesLeft, log,
                   sinceChange, writeCalls, lastWrite, closeCalls, results, readErrors, client, cli>>

\* the mutant of writeResult: the text is appended
writeResultAppend(old, text) == (IF old = Missing THEN <<>> ELSE old) \o text

\* writeResult (lines 635-637): the whole file is replaced
writeResult(old, text) == text

\* lines 375-395: clearFile(commandPath), writeResult(READY), running = true,
\* pollCommands() up to its first sleep.  unlinkSync may fail for another
\* reason than a missing file (cleared = FALSE) and clearFile ignores that;
\* writeResult is outside any try, so its failure rejects start().
Ready(cleared, written) ==
    /\ cmdFile' = IF cleared THEN Missing ELSE cmdFile
    /\ sinceChange' = IF content(cmdFile') # content(cmdFile) THEN 0 ELSE sinceChange
    /\ writeCalls' = writeCalls + 1
    /\ lastWrite' = IF written THEN "written" ELSE "failed"
    /\ resultFile' = IF written THEN writeResult(resultFile, ReadyText) ELSE resultFile
    /\ running' = written
    /\ pc' = IF written THEN "sleep" ELSE "rejected"

\* the launch ends (lines 326-368): the browser or the persistent context is
\* there, or a call of the try block threw.  The call that throws may be the
\* launch itself or one after it (newContext, newPage), so that the browser
\* (launched) and its context (contextMade) may be there when start() fails.
\* With a profile, an error whose message tells of a closed browser ends the
\* process with status 1; every other error rejects start().
LaunchDone ==
    /\ pc = "launching" /\ exitCode = Alive
    /\ \/ /\ browser' = IF config[1].profile THEN "null" ELSE "open"
          /\ context' = "open"
          /\ IF initialUrl = "given"
             THEN /\ pc' = "navigating"
                  /\ UNCHANGED <<running, cmdFile, resultFile, sinceChange,
                                 writeCalls, lastWrite>>
             ELSE \E cleared, written \in BOOLEAN : Ready(cleared, written)
          /\ UNCHANGED exitCode
       \/ /\ \E launched, contextMade \in BOOLEAN :
                /\ contextMade => launched
                /\ config[1].profile => (contextMade = launched)
                /\ browser' = IF launched /\ ~config[1].profile THEN "open" ELSE "null"
                /\ context' = IF contextMade THEN "open" ELSE "null"
          /\ \/ /\ config[1].profile
                /\ exitCode' = Exited(1)
                /\ pc' = "exited"
             \/ /\ pc' = "rejected"
                /\ UNCHANGED exitCode
          /\ UNCHANGED <<running, cmdFile, resultFile, sinceChange, writeCalls,
                         lastWrite>>
    /\ initialUrl' = initialUrl
    /\ UNCHANGED <<config, lastCommand, pageUrl, executing, writesLeft, log,
                   closeCalls, results, readErrors, client, cli>>

\* the initial page.goto ends (lines 370-373); it is outside the try, so its
\* failure rejects start()
NavigateDone ==
    /\ pc = "navigating" /\ exitCode = Alive
    /\ \/ /\ \E dest \in Sites : pageUrl' = dest
          /\ \E cleared, written \in BOOLEAN : Ready(cleared, written)
       \/ /\ pc' = "rejected"
          /\ UNCHANGED <<pageUrl, running, cmdFile, resultFile, sinceChange,
                         writeCalls, lastWrite>>
    /\ initialUrl' = "none"
    /\ UNCHANGED <<config, lastCommand, browser, context, executing, exitCode,
                   writesLeft, log, closeCalls, results, readErrors, client, cli>>

\* the mutant of MainCatch: the process ends with status 0
MainCatchExitZero ==
    /\ pc = "rejected" /\ exitCode = Alive
    /\ config # Null
    /\ exitCode' = Exited(0)
    /\ pc' = "exited"
    /\ UNCHANGED <<config, initialUrl, running, lastCommand, browser, context, pageUrl,
                   executing, cmdFile, resultFile, writesLeft, log, sinceChange,
                   writeCalls, lastWrite, closeCalls, results, readErrors, client, cli>>

\* the command line's main().catch (cli.js 209-212): a rejected start() ends
\* the process with status 1; nothing is closed on that path.  main() calls
\* initialize() before start() (cli.js 199), so the object it started has a
\* configuration; the other callers of start() (pilot.js 668, the example)
\* only print the error.
MainCatch ==
    /\ pc = "rejected" /\ exitCode = Alive
    /\ config # Null
    /\ exitCode' = Exited(1)
    /\ pc' = "exited"
    /\ UNCHANGED <<config, initialUrl, running, lastCommand, browser, context, pageUrl,
                   executing, cmdFile, resultFile, writesLeft, log, sinceChange,
                   writeCalls, lastWrite, closeCalls, results, readErrors, client, cli>>

(***************************************************************************)
(* The poll loop (pollCommands, lines 401-423).  One cycle, from the end   *)
(* of the sleep to the next await, is one step: the existsSync, the read,  *)
(* the comparison and the assignment of lastCommand are synchronous.       *)
(***************************************************************************)
\* the mutant of isNewCommand: no comparison with lastCommand
isNewCommandNoDedup(command, last) == command # <<>>

\* the mutant of isNewCommand: an empty text is a command
isNewCommandOrEmpty(command, last) == command # last

\* the mutant of isNewCommand: the comparison ignores the letter case
isNewCommandAnyCase(command, last) ==
    command # <<>> /\ toLowerCase(command) # toLowerCase(last)

\* line 409, negated: the text is a command to dispatch
isNewCommand(command, last) == command # <<>> /\ command # last

\* the mutant of runningAfter: quit leaves running as it is
runningAfterKeep(command, r) == r

\* the mutant of runningAfter: every command stops the session
runningAfterStop(command, r) == FALSE

\* line 477: quit sets running to false synchronously, before its first await
runningAfter(command, r) == IF isQuit(command) THEN FALSE ELSE r

\* the mutant of loopAfterDispatch: executeCommand is not awaited
loopAfterDispatchNoAwait == "sleep"

\* line 414: the loop awaits executeCommand
loopAfterDispatch == "await"

\* the mutant of PollIdle: a missing or empty file resets lastCommand
PollIdleResets ==
    /\ pc = "sleep" /\ exitCode = Alive
    /\ \/ cmdFile = Missing
       \/ /\ cmdFile # Missing
          /\ ~isNewCommand(trim(cmdFile), lastCommand)
    /\ lastCommand' = IF content(cmdFile) \in {Missing, <<>>} THEN <<>> ELSE lastCommand
    /\ UNCHANGED <<pc, config, initialUrl, running, browser, context, pageUrl,
                   executing, exitCode, cmdFile, resultFile, writesLeft, log,
                   sinceChange, writeCalls, lastWrite, closeCalls, results, readErrors,
                   client, cli>>

\* a cycle that dispatches nothing: no file, an empty text or the text of
\* lastCommand (lines 406-409: continue)
PollIdle ==
    /\ pc = "sleep" /\ exitCode = Alive
    /\ \/ cmdFile = Missing
       \/ /\ cmdFile # Missing
          /\ ~isNewCommand(trim(cmdFile), lastCommand)
    /\ UNCHANGED vars

\* the mutant of PollReadError: without the catch the loop ends
PollReadErrorFatal ==
    /\ pc = "sleep" /\ exitCode = Alive
    /\ cmdFile # Missing
    /\ readErrors < MaxReadErrors
    /\ readErrors' = readErrors + 1
    /\ pc' = "stopped"
    /\ UNCHANGED <<config, initialUrl, running, lastCommand, browser, context, pageUrl,
                   executing, exitCode, cmdFile, resultFile, writesLeft, log,
                   sinceChange, writeCalls, lastWrite, closeCalls, results, client, cli>>

\* a cycle whose readFileSync throws: the catch of line 419 swallows it
PollReadError ==
    /\ pc = "sleep" /\ exitCode = Alive
    /\ cmdFile # Missing
    /\ readErrors < MaxReadErrors
    /\ readErrors' = readErrors + 1
    /\ UNCHANGED <<pc, config, initialUrl, running, lastCommand, browser, context, pageUrl,
                   executing, exitCode, cmdFile, resultFile, writesLeft, log,
                   sinceChange, writeCalls, lastWrite, closeCalls, results, client, cli>>

\* the mutant of PollDispatch: one cycle dispatches the command twice
PollDispatchQueued ==
    /\ pc = "sleep" /\ exitCode = Alive
    /\ cmdFile # Missing
    /\ LET command == trim(cmdFile) IN
        /\ isNewCommand(command, lastCommand)
        /\ lastCommand' = command
        /\ log' = log \o <<command, command>>
        /\ sinceChange' = sinceChange + 1
        /\ running' = runningAfter(command, running)
        /\ closeCalls' = IF isQuit(command) /\ (browser # "null" \/ context # "null")
                         THEN closeCalls + 1 ELSE closeCalls
        /\ \E env \in Envs(command, pageUrl) :
              executing' = executing \o <<[cmd |-> command, env |-> env],
                                             [cmd |-> command, env |-> env]>>
    /\ pc' = loopAfterDispatch
    /\ lastWrite' = "none"
    /\ UNCHANGED <<config, initialUrl, browser, context, pageUrl, exitCode,
                   cmdFile, resultFile, writesLeft, writeCalls, results, readErrors, client, cli>>

\* a cycle that finds a new command (lines 408-414), up to the first await
\* inside executeCommand
PollDispatch ==
    /\ pc = "sleep" /\ exitCode = Alive
    /\ cmdFile # Missing
    /\ LET command == trim(cmdFile) IN
        /\ isNewCommand(command, lastCommand)
        /\ lastCommand' = command
        /\ log' = Append(log, command)
        /\ sinceChange' = sinceChange + 1
        /\ running' = runningAfter(command, running)
        /\ closeCalls' = IF isQuit(command) /\ (browser # "null" \/ context # "null")
                         THEN closeCalls + 1 ELSE closeCalls
        /\ \E env \in Envs(command, pageUrl) :
              executing' = Append(executing, [cmd |-> command, env |-> env])
    /\ pc' = loopAfterDispatch
    /\ lastWrite' = "none"
    /\ UNCHANGED <<config, initialUrl, browser, context, pageUrl, exitCode,
                   cmdFile, resultFile, writesLeft, writeCalls, results, readErrors, client, cli>>

\* the mutant of loopNext: the loop ends after the first command
loopNextStop(r) == "stopped"

\* the loop after a cycle: while (this.running)
loopNext(r) == IF r THEN "sleep" ELSE "stopped"

\* the mutant of Complete: a command whose result was not written is forgotten
CompleteRetries ==
    LET r0 == executeCommand(Head(executing).cmd, Head(executing).env, pageUrl) IN
    /\ executing # <<>> /\ exitCode = Alive
    /\ LET e == Head(executing)
           r == executeCommand(e.cmd, e.env, pageUrl)
       IN
        /\ executing' = Tail(executing)
        /\ results' = IF r.kind = "return" THEN Append(results, r.value) ELSE results
        /\ pageUrl' = IF navigates(e.cmd) THEN e.env.dest ELSE pageUrl
        /\ \/ /\ r.kind = "exit"
              /\ exitCode' = Exited(0)
              /\ pc' = "exited"
              /\ browser' = IF browser = "open" THEN "closed" ELSE browser
              /\ context' = "closed"
              /\ UNCHANGED <<resultFile, writeCalls, lastWrite>>
           \/ /\ r.kind = "return"
              /\ \E written \in BOOLEAN :
                    /\ lastWrite' = IF written THEN "written" ELSE "failed"
                    /\ resultFile' = IF written THEN writeResult(resultFile, r.value)
                                     ELSE resultFile
              /\ writeCalls' = writeCalls + 1
              /\ pc' = loopNext(running)
              /\ UNCHANGED <<exitCode, browser, context>>
           \/ /\ r.kind = "throw"
              /\ pc' = loopNext(running)
              /\ UNCHANGED <<exitCode, browser, context, resultFile, writeCalls,
                             lastWrite>>
    /\ lastCommand' = IF r0.kind = "return" /\ lastWrite' = "failed" THEN <<>> ELSE lastCommand
    /\ UNCHANGED <<config, initialUrl, running, cmdFile,
                   writesLeft, log, sinceChange, closeCalls, readErrors, client, cli>>

\* the mutant of Complete: a command that ends in an error is forgotten
CompleteRollsBack ==
    LET r0 == executeCommand(Head(executing).cmd, Head(executing).env, pageUrl) IN
    /\ executing # <<>> /\ exitCode = Alive
    /\ LET e == Head(executing)
           r == executeCommand(e.cmd, e.env, pageUrl)
       IN
        /\ executing' = Tail(executing)
        /\ results' = IF r.kind = "return" THEN Append(results, r.value) ELSE results
        /\ pageUrl' = IF navigates(e.cmd) THEN e.env.dest ELSE pageUrl
        /\ \/ /\ r.kind = "exit"
              /\ exitCode' = Exited(0)
              /\ pc' = "exited"
              /\ browser' = IF browser = "open" THEN "closed" ELSE browser
              /\ context' = "closed"
              /\ UNCHANGED <<resultFile, writeCalls, lastWrite>>
           \/ /\ r.kind = "return"
              /\ \E written \in BOOLEAN :
                    /\ lastWrite' = IF written THEN "written" ELSE "failed"
                    /\ resultFile' = IF written THEN writeResult(resultFile, r.value)
                                     ELSE resultFile
              /\ writeCalls' = writeCalls + 1
              /\ pc' = loopNext(running)
              /\ UNCHANGED <<exitCode, browser, context>>
           \/ /\ r.kind = "throw"
              /\ pc' = loopNext(running)
              /\ UNCHANGED <<exitCode, browser, context, resultFile, writeCalls,
                             lastWrite>>
    /\ lastCommand' = IF startsWith(r0.value, <<"E", "R", "R", "O", "R", ":">>) THEN <<>> ELSE lastCommand
    /\ UNCHANGED <<config, initialUrl, running, cmdFile,
                   writesLeft, log, sinceChange, closeCalls, readErrors, client, cli>>

\* executeCommand ends: process.exit(0) for a quit whose close succeeded,
\* else the loop writes the result (line 415) and goes on to the next cycle;
\* a failure of writeFileSync, like an exception of executeCommand, ends in
\* the catch of line 419
Complete ==
    /\ executing # <<>> /\ exitCode = Alive
    /\ LET e == Head(executing)
           r == executeCommand(e.cmd, e.env, pageUrl)
       IN
        /\ executing' = Tail(executing)
        /\ results' = IF r.kind = "return" THEN Append(results, r.value) ELSE results
        /\ pageUrl' = IF navigates(e.cmd) THEN e.env.dest ELSE pageUrl
        /\ \/ /\ r.kind = "exit"
              /\ exitCode' = Exited(0)
              /\ pc' = "exited"
              /\ browser' = IF browser = "open" THEN "closed" ELSE browser
              /\ context' = "closed"
              /\ UNCHANGED <<resultFile, writeCalls, lastWrite>>
           \/ /\ r.kind = "return"
              /\ \E written \in BOOLEAN :
                    /\ lastWrite' = IF written THEN "written" ELSE "failed"
                    /\ resultFile' = IF written THEN writeResult(resultFile, r.value)
                                     ELSE resultFile
              /\ writeCalls' = writeCalls + 1
              /\ pc' = loopNext(running)
              /\ UNCHANGED <<exitCode, browser, context>>
           \/ /\ r.kind = "throw"
              /\ pc' = loopNext(running)
              /\ UNCHANGED <<exitCode, browser, context, resultFile, writeCalls,
                             lastWrite>>
    /\ UNCHANGED <<config, initialUrl, running, lastCommand, cmdFile,
                   writesLeft, log, sinceChange, closeCalls, readErrors, client, cli>>

(***************************************************************************)
(* The environment: the process that writes commands and reads results     *)
(* (an LLM, a script, sendCommand of the example).                         *)
(***************************************************************************)
WriterWrite ==
    /\ writesLeft > 0
    /\ \E t \in FileTexts :
          /\ cmdFile' = t
          /\ sinceChange' = IF content(t) # content(cmdFile) THEN 0 ELSE sinceChange
    /\ writesLeft' = writesLeft - 1
    /\ UNCHANGED <<pc, config, initialUrl, running, lastCommand, browser, context, pageUrl,
                   executing, exitCode, resultFile, log, writeCalls, lastWrite,
                   closeCalls, results, readErrors, client, cli>>

WriterRemove ==
    /\ writesLeft > 0
    /\ cmdFile # Missing
    /\ cmdFile' = Missing
    /\ sinceChange' = 0
    /\ writesLeft' = writesLeft - 1
    /\ UNCHANGED <<pc, config, initialUrl, running, lastCommand, browser, context, pageUrl,
                   executing, exitCode, resultFile, log, writeCalls, lastWrite,
                   closeCalls, results, readErrors, client, cli>>

\* the reader empties the result file before it writes a command
ClientClearResult ==
    /\ resultFile \notin {Missing, <<>>}
    /\ resultFile' = <<>>
    /\ UNCHANGED <<pc, config, initialUrl, running, lastCommand, browser, context, pageUrl,
                   executing, exitCode, cmdFile, writesLeft, log, sinceChange,
                   writeCalls, lastWrite, closeCalls, results, readErrors, client, cli>>

Next ==
    \/ Initialize
    \/ StartUninitialized
    \/ StartLaunch
    \/ LaunchDone
    \/ NavigateDone
    \/ MainCatch
    \/ PollIdle
    \/ PollReadError
    \/ PollDispatch
    \/ Complete
    \/ WriterWrite
    \/ WriterRemove
    \/ ClientClearResult

Spec == Init /\ [][Next]_vars

\* The same program with a writer that acts at most MaxLiveWrites times, for
\* the properties of progress: the timer of the loop fires again and again
\* (line 403), and the calls of the browser library end (each has a timeout).
LiveInit ==
    /\ pc = "new"
    /\ config = Null
    /\ initialUrl = "none"
    /\ running = FALSE
    /\ lastCommand = <<>>
    /\ browser = "null"
    /\ context = "null"
    /\ pageUrl = AboutBlank
    /\ executing = <<>>
    /\ exitCode = Alive
    /\ cmdFile \in {Missing, <<"t", "i", "t", "l", "e">>}
    /\ resultFile = Missing
    /\ writesLeft = MaxLiveWrites
    /\ log = <<>>
    /\ sinceChange = 0
    /\ writeCalls = 0
    /\ lastWrite = "none"
    /\ closeCalls = 0
    /\ results = <<>>
    /\ readErrors = 0
    /\ client = NoCall
    /\ cli = NoCli

FairSpec ==
    LiveInit /\ [][Next]_vars /\ WF_vars(PollDispatch) /\ WF_vars(Complete)

\* The same, for a session started by the command line: the catch of main()
\* runs as soon as start() is rejected.
CliFairSpec ==
    LiveInit /\ [][Next]_vars /\ WF_vars(PollDispatch) /\ WF_vars(Complete)
        /\ WF_vars(MainCatch)

(***************************************************************************)
(* The dispatcher on every kind of command: a session that has started,    *)
(* with one command in the command file and no writer.                     *)
(***************************************************************************)
CommandTexts ==
    { <<"s", "c", "r", "e", "e", "n", "s", "h", "o", "t">>, <<"t", "e", "x", "t">>, <<"h", "t", "m", "l">>, <<"u", "r", "l">>, <<"t", "i", "t", "l", "e">>, <<"t", "a", "b", "l", "e", "s">>,
      <<"l", "i", "n", "k", "s">>, <<"b", "a", "c", "k">>, <<"f", "o", "r", "w", "a", "r", "d">>, <<"r", "e", "f", "r", "e", "s", "h">>, <<"q", "u", "i", "t">>,
      <<"T", "I", "T", "L", "E">>, <<"Q", "u", "i", "t">>, <<"t", "i", "t", "l", "e", " ", "n", "o", "w">>, <<"u", "r", "l", ":">>,
      <<"S", "c", "r", "e", "e", "n", "s", "h", "o", "t">>, <<"T", "E", "X", "T">>, <<"h", "T", "m", "L">>, <<"U", "R", "L">>, <<"T", "a", "b", "l", "e", "s">>, <<"L", "I", "N", "K", "S">>,
      <<"B", "a", "c", "k">>, <<"F", "O", "R", "W", "A", "R", "D">>, <<"R", "e", "f", "r", "e", "s", "h">>, <<"q", "u", "i", "t", " ", "n", "o", "w">>, <<"T", "e", "x", "t", ":", "a">>, <<"b", "a", "c", "k", "s">>,
      <<"g", "o", "t", "o", ":", "u">>, <<"g", "o", "t", "o", ":", " ", "u", " ">>, <<"G", "O", "T", "O", ":", "u">>, <<"g", "o", "t", "o", ":">>, <<"g", "o", "t", "o", ":", "U">>,
      <<"c", "l", "i", "c", "k", ":", "#", "a">>, <<"c", "l", "i", "c", "k", ":", "S", "i", "g", "n", " ", "i", "n">>, <<"C", "l", "i", "c", "k", ":", "#", "a">>,
      <<"t", "y", "p", "e", ":", "#", "f", ":", "h", "e", "l", "l", "o", ":", "w", "o", "r", "l", "d">>, <<"t", "y", "p", "e", ":", "#", "f">>, <<"t", "y", "p", "e", ":">>, <<"t", "y", "p", "e", ":", " ", "#", "f", " ", ":", " ", "h", "i">>,
      <<"T", "y", "p", "e", ":", "#", "f", ":", "h", "i">>, <<"t", "y", "p", "e", ":", "#", "F", ":", "H", "i">>,
      <<"w", "a", "i", "t", ":", "2">>, <<"w", "a", "i", "t", ":", "0">>, <<"w", "a", "i", "t", ":", "x">>, <<"w", "a", "i", "t", ":", "-", "1">>, <<"w", "a", "i", "t", ":", "1", "0", "s">>, <<"w", "a", "i", "t", ":">>,
      <<"s", "c", "r", "o", "l", "l", ":", "u", "p">>, <<"s", "c", "r", "o", "l", "l", ":", "d", "o", "w", "n">>, <<"s", "c", "r", "o", "l", "l", ":", "t", "o", "p">>, <<"s", "c", "r", "o", "l", "l", ":", "b", "o", "t", "t", "o", "m">>,
      <<"s", "c", "r", "o", "l", "l", ":", " ", "U", "P">>, <<"s", "c", "r", "o", "l", "l", ":", "s", "i", "d", "e", "w", "a", "y", "s">>, <<"S", "c", "r", "o", "l", "l", ":", "u", "p">>,
      <<"b", "o", "g", "u", "s">>, <<" ", "t", "i", "t", "l", "e", "\n">> }

WideInit ==
    /\ pc = "sleep"
    /\ config \in {<<c>> : c \in Configs}
    /\ initialUrl = "none"
    /\ running = TRUE
    /\ lastCommand = <<>>
    /\ browser = (IF config[1].profile THEN "null" ELSE "open")
    /\ context = "open"
    /\ pageUrl \in URLs
    /\ executing = <<>>
    /\ exitCode = Alive
    /\ cmdFile \in CommandTexts
    /\ resultFile = ReadyText
    /\ writesLeft = 0
    /\ log = <<>>
    /\ sinceChange = 0
    /\ writeCalls = 1
    /\ lastWrite = "written"
    /\ closeCalls = 0
    /\ results = <<>>
    /\ readErrors = 0
    /\ client = NoCall
    /\ cli = NoCli

WideNext ==
    \/ PollIdle
    \/ PollReadError
    \/ PollDispatch
    \/ Complete

WideSpec == WideInit /\ [][WideNext]_vars

(***************************************************************************)
(* Sequences of commands: a session that has started, and a writer that     *)
(* puts up to MaxSeqWrites texts into the command file, or removes it.      *)
(***************************************************************************)
SeqTexts ==
    { <<"g", "o", "t", "o", ":", "u">>, <<"u", "r", "l">>, <<"t", "i", "t", "l", "e">>, <<"b", "a", "c", "k">>, <<" ", "\n">>, <<>> }

SeqInit ==
    /\ pc = "sleep"
    /\ config \in {<<c>> : c \in Configs}
    /\ initialUrl = "none"
    /\ running = TRUE
    /\ lastCommand = <<>>
    /\ browser = (IF config[1].profile THEN "null" ELSE "open")
    /\ context = "open"
    /\ pageUrl = AboutBlank
    /\ executing = <<>>
    /\ exitCode = Alive
    /\ cmdFile = Missing
    /\ resultFile = ReadyText
    /\ writesLeft = MaxSeqWrites
    /\ log = <<>>
    /\ sinceChange = 0
    /\ writeCalls = 1
    /\ lastWrite = "written"
    /\ closeCalls = 0
    /\ results = <<>>
    /\ readErrors = 0
    /\ client = NoCall
    /\ cli = NoCli

SeqWrite ==
    /\ writesLeft > 0
    /\ \E t \in SeqTexts :
          /\ cmdFile' = t
          /\ sinceChange' = IF content(t) # content(cmdFile) THEN 0 ELSE sinceChange
    /\ writesLeft' = writesLeft - 1
    /\ UNCHANGED <<pc, config, initialUrl, running, lastCommand, browser, context, pageUrl,
                   executing, exitCode, resultFile, log, writeCalls, lastWrite,
                   closeCalls, results, readErrors, client, cli>>

SeqNext ==
    \/ PollIdle
    \/ PollReadError
    \/ PollDispatch
    \/ Complete
    \/ SeqWrite
    \/ WriterRemove

SeqSpec == SeqInit /\ [][SeqNext]_vars

(***************************************************************************)
(* A started session whose writer writes one command in several spellings. *)
(***************************************************************************)
CaseTexts == { <<"t", "i", "t", "l", "e">>, <<" ", "t", "i", "t", "l", "e", "\n">>, <<"T", "I", "T", "L", "E">>, <<"T", "i", "t", "l", "e", " ">> }

CaseWrite ==
    /\ writesLeft > 0
    /\ \E t \in CaseTexts :
          /\ cmdFile' = t
          /\ sinceChange' = IF content(t) # content(cmdFile) THEN 0 ELSE sinceChange
    /\ writesLeft' = writesLeft - 1
    /\ UNCHANGED <<pc, config, initialUrl, running, lastCommand, browser, context, pageUrl,
                   executing, exitCode, resultFile, log, writeCalls, lastWrite,
                   closeCalls, results, readErrors, client, cli>>

CaseNext ==
    \/ PollIdle
    \/ PollReadError
    \/ PollDispatch
    \/ Complete
    \/ CaseWrite
    \/ WriterRemove

CaseSpec == SeqInit /\ [][CaseNext]_vars

(***************************************************************************)
(* One call of sendCommand of the example (part_000 12-28) against a        *)
(* started session; the command file may hold a command that an earlier    *)
(* call left and that the loop has or has not yet read.                    *)
(***************************************************************************)
ClientTexts == { <<"t", "i", "t", "l", "e">>, <<"u", "r", "l">>, <<"g", "o", "t", "o", ":", "u">> }

ClientInit ==
    /\ pc = "sleep"
    /\ config \in {<<c>> : c \in Configs}
    /\ initialUrl = "none"
    /\ running = TRUE
    /\ lastCommand = <<>>
    /\ browser = (IF config[1].profile THEN "null" ELSE "open")
    /\ context = "open"
    /\ pageUrl = AboutBlank
    /\ executing = <<>>
    /\ exitCode = Alive
    /\ cmdFile \in {Missing} \cup ClientTexts
    /\ resultFile = ReadyText
    /\ writesLeft = 0
    /\ log = <<>>
    /\ sinceChange = 0
    /\ writeCalls = 1
    /\ lastWrite = "written"
    /\ closeCalls = 0
    /\ results = <<>>
    /\ readErrors = 0
    /\ client = NoCall
    /\ cli = NoCli

\* the dispatches that have ended
completed == Len(log) - Len(executing)

\* fs.writeFileSync(resultPath, '') (line 18)
SendClear ==
    /\ client.pc = "idle"
    /\ \E command \in ClientTexts :
          client' = [client EXCEPT !.pc = "cleared", !.command = command]
    /\ resultFile' = <<>>
    /\ UNCHANGED <<pc, config, initialUrl, running, lastCommand, browser, context, pageUrl,
                   executing, exitCode, cmdFile, writesLeft, log, sinceChange,
                   writeCalls, lastWrite, closeCalls, results, readErrors, cli>>

\* fs.writeFileSync(commandPath, command) (line 21)
SendWrite ==
    /\ client.pc = "cleared"
    /\ cmdFile' = client.command
    /\ sinceChange' = IF content(client.command) # content(cmdFile) THEN 0 ELSE sinceChange
    /\ client' = [client EXCEPT !.pc = "waiting", !.sentAt = Len(log)]
    /\ UNCHANGED <<pc, config, initialUrl, running, lastCommand, browser, context, pageUrl,
                   executing, exitCode, resultFile, writesLeft, log, writeCalls,
                   lastWrite, closeCalls, results, readErrors, cli>>

\* after waitMs: return fs.readFileSync(resultPath, 'utf-8') (lines 24-27)
SendRead ==
    /\ client.pc = "waiting"
    /\ client' = [client EXCEPT !.pc = "returned", !.returned = resultFile,
                                !.doneAt = completed]
    /\ UNCHANGED <<pc, config, initialUrl, running, lastCommand, browser, context, pageUrl,
                   executing, exitCode, cmdFile, resultFile, writesLeft, log, sinceChange,
                   writeCalls, lastWrite, closeCalls, results, readErrors, cli>>

ClientNext ==
    \/ PollIdle
    \/ PollReadError
    \/ PollDispatch
    \/ Complete
    \/ SendClear
    \/ SendWrite
    \/ SendRead

ClientSpec == ClientInit /\ [][ClientNext]_vars

(***************************************************************************)
(* The command line (cli.js): parseArgs and main, up to the READY line.    *)
(***************************************************************************)
MaxArgs == 2

HelpOptions == { <<"-", "-", "h", "e", "l", "p">>, <<"-", "h">> }

UrlOptions == { <<"-", "-", "u", "r", "l">>, <<"-", "u">> }

DirOptions == { <<"-", "-", "d", "i", "r">>, <<"-", "d">> }

Arguments ==
    HelpOptions \cup UrlOptions \cup DirOptions \cup
    { <<"-", "-", "b", "r", "o", "w", "s", "e", "r">>, <<"-", "-", "p", "r", "o", "f", "i", "l", "e">>, <<"-", "-", "n", "o", "-", "p", "r", "o", "f", "i", "l", "e">>, <<"-", "-", "s", "e", "l", "e", "c", "t", "-", "p", "r", "o", "f", "i", "l", "e">>,
      <<"-", "-", "b", "a", "c", "k", "g", "r", "o", "u", "n", "d">>, <<"-", "-", "h", "e", "a", "d", "l", "e", "s", "s">>, <<"c", "h", "r", "o", "m", "e">>, <<"E", "D", "G", "E">>, <<"f", "i", "r", "e", "f", "o", "x">>,
      <<"s", "i", "t", "e">>, <<"-", "x">> }

ArgLists == UNION { [1..n -> Arguments] : n \in 0..MaxArgs }

\* args[i], which is undefined beyond the end of the array
argAt(args, i) == IF i <= Len(args) THEN args[i] ELSE Undefined

\* a value that an if takes for true
truthy(v) == v \notin {Undefined, JsNull, <<>>}

\* what parseArgs does from index i on with the config built so far: it
\* returns the config, or ends the process, or throws (path.resolve of
\* undefined)
RECURSIVE parseFrom(_, _, _)
parseFrom(args, i, conf) ==
    IF i > Len(args)
    THEN [kind |-> "return", status |-> 0, printed |-> "nothing", config |-> conf]
    ELSE LET arg == args[i]
             value == argAt(args, i + 1)
         IN
         IF arg \in HelpOptions
         THEN [kind |-> "exit", status |-> 0, printed |-> "usage", config |-> conf]
         ELSE IF arg \in UrlOptions
         THEN parseFrom(args, i + 2, [conf EXCEPT !.url = value])
         ELSE IF arg \in DirOptions
         THEN IF value = Undefined
              THEN [kind |-> "throw", status |-> 0, printed |-> "nothing",
                    config |-> conf]
              ELSE parseFrom(args, i + 2,
                             [conf EXCEPT !.workDir = <<"<path.resolve>">> \o value])
         ELSE IF arg = <<"-", "-", "b", "r", "o", "w", "s", "e", "r">>
         THEN LET type == IF value = Undefined THEN Undefined
                             ELSE toLowerCase(value)
              IN IF type = <<"c", "h", "r", "o", "m", "e">> \/ type = <<"e", "d", "g", "e">>
                 THEN parseFrom(args, i + 2, [conf EXCEPT !.browser = type])
                 ELSE [kind |-> "exit", status |-> 1, printed |-> "invalid browser",
                       config |-> conf]
         ELSE IF arg = <<"-", "-", "p", "r", "o", "f", "i", "l", "e">>
         THEN parseFrom(args, i + 2,
                        [conf EXCEPT !.profile = value, !.autoProfile = FALSE])
         ELSE IF arg = <<"-", "-", "n", "o", "-", "p", "r", "o", "f", "i", "l", "e">>
         THEN parseFrom(args, i + 1,
                        [conf EXCEPT !.profile = JsNull, !.autoProfile = FALSE])
         ELSE IF arg = <<"-", "-", "s", "e", "l", "e", "c", "t", "-", "p", "r", "o", "f", "i", "l", "e">>
         THEN parseFrom(args, i + 1, [conf EXCEPT !.selectProfile = TRUE])
         ELSE IF arg = <<"-", "-", "b", "a", "c", "k", "g", "r", "o", "u", "n", "d">>
         THEN parseFrom(args, i + 1, [conf EXCEPT !.background = TRUE])
         ELSE IF arg = <<"-", "-", "h", "e", "a", "d", "l", "e", "s", "s">>
         THEN parseFrom(args, i + 1, [conf EXCEPT !.headless = TRUE])
         ELSE IF ~startsWith(arg, <<"-">>) /\ ~truthy(conf.url)
         THEN parseFrom(args, i + 1, [conf EXCEPT !.url = arg])
         ELSE parseFrom(args, i + 1, conf)

parseArgs(args) == parseFrom(args, 1, DefaultArgsConfig)

CliInit ==
    /\ pc = "new"
    /\ config = Null
    /\ initialUrl = "none"
    /\ running = FALSE
    /\ lastCommand = <<>>
    /\ browser = "null"
    /\ context = "null"
    /\ pageUrl = AboutBlank
    /\ executing = <<>>
    /\ exitCode = Alive
    /\ cmdFile = Missing
    /\ resultFile = Missing
    /\ writesLeft = 0
    /\ log = <<>>
    /\ sinceChange = 0
    /\ writeCalls = 0
    /\ lastWrite = "none"
    /\ closeCalls = 0
    /\ results = <<>>
    /\ readErrors = 0
    /\ client = NoCall
    /\ \E args \in ArgLists : cli = [NoCli EXCEPT !.pc = "argv", !.args = args]

\* main() up to the end of parseArgs (line 137); what parseArgs throws is
\* caught by main().catch, which prints the error and exits with status 1
CliParse ==
    /\ cli.pc = "argv" /\ exitCode = Alive
    /\ LET r == parseArgs(cli.args)
       IN  \/ /\ r.kind = "return"
              /\ cli' = [cli EXCEPT !.pc = "parsed", !.config = r.config]
              /\ UNCHANGED <<pc, exitCode>>
           \/ /\ r.kind = "exit"
              /\ cli' = [cli EXCEPT !.pc = "exited", !.printed = r.printed]
              /\ exitCode' = Exited(r.status)
              /\ pc' = "exited"
           \/ /\ r.kind = "throw"
              /\ cli' = [cli EXCEPT !.pc = "exited", !.printed = "error"]
              /\ exitCode' = Exited(1)
              /\ pc' = "exited"
    /\ UNCHANGED <<config, initialUrl, running, lastCommand, browser, context, pageUrl,
                   executing, cmdFile, resultFile, writesLeft, log, sinceChange,
                   writeCalls, lastWrite, closeCalls, results, readErrors, client>>

\* --background: a detached child is spawned and this process ends
\* (lines 140-175)
CliBackground ==
    /\ cli.pc = "parsed" /\ exitCode = Alive
    /\ cli.config.background
    /\ cli' = [cli EXCEPT !.pc = "exited", !.printed = "started in background"]
    /\ exitCode' = Exited(0)
    /\ pc' = "exited"
    /\ UNCHANGED <<config, initialUrl, running, lastCommand, browser, context, pageUrl,
                   executing, cmdFile, resultFile, writesLeft, log, sinceChange,
                   writeCalls, lastWrite, closeCalls, results, readErrors, client>>

\* new WebPilot(...) and initialize() (lines 187-199; pilot.js 197-248): a
\* profile that was given is used, a profile that was disabled is not, and
\* otherwise it is detected
CliInitialize ==
    /\ cli.pc = "parsed" /\ exitCode = Alive
    /\ ~cli.config.background
    /\ pc = "new"
    /\ \E c \in Configs :
          /\ cli.config.profile # Undefined => (c.profile <=> truthy(cli.config.profile))
          /\ (cli.config.profile = Undefined /\ ~cli.config.autoProfile) => ~c.profile
          /\ config' = <<c>>
    /\ pc' = "inited"
    /\ cli' = [cli EXCEPT !.pc = "initialized"]
    /\ UNCHANGED <<initialUrl, running, lastCommand, browser, context, pageUrl,
                   executing, exitCode, cmdFile, resultFile, writesLeft, log, sinceChange,
                   writeCalls, lastWrite, closeCalls, results, readErrors, client>>

\* --select-profile: the process ends after initialize() (lines 202-206)
CliSelectProfile ==
    /\ cli.pc = "initialized" /\ exitCode = Alive
    /\ cli.config.selectProfile
    /\ cli' = [cli EXCEPT !.pc = "exited", !.printed = "profile selected"]
    /\ exitCode' = Exited(0)
    /\ pc' = "exited"
    /\ UNCHANGED <<config, initialUrl, running, lastCommand, browser, context, pageUrl,
                   executing, cmdFile, resultFile, writesLeft, log, sinceChange,
                   writeCalls, lastWrite, closeCalls, results, readErrors, client>>

\* await pilot.start(config.url) (line 208), up to the launch
CliStart ==
    /\ cli.pc = "initialized" /\ exitCode = Alive
    /\ ~cli.config.selectProfile
    /\ pc = "inited"
    /\ pc' = "launching"
    /\ initialUrl' = IF truthy(cli.config.url) THEN "given" ELSE "none"
    /\ cli' = [cli EXCEPT !.pc = "started"]
    /\ UNCHANGED <<config, running, lastCommand, browser, context, pageUrl,
                   executing, exitCode, cmdFile, resultFile, writesLeft, log,
                   sinceChange, writeCalls, lastWrite, closeCalls, results, readErrors,
                   client>>

CliNext ==
    \/ CliParse
    \/ CliBackground
    \/ CliInitialize
    \/ CliSelectProfile
    \/ CliStart
    \/ LaunchDone
    \/ NavigateDone
    \/ MainCatch

CliSpec == CliInit /\ [][CliNext]_vars

(***************************************************************************)
(* Properties.                                                             *)
(***************************************************************************)
\* a step in which the loop dispatches a command
DispatchStep == Len(log') = Len(log) + 1

\* a step in which a call of executeCommand ends
CompletionStep == executing # <<>> /\ Len(executing') < Len(executing)

\* the result of a browser failure
ErrorResult == <<"E", "R", "R", "O", "R", ":", " ">> \o ErrMessage

\* whether the action of the command that is being executed fails
ActionFails ==
    LET e == Head(executing) IN dispatch(e.cmd, e.env, pageUrl).kind = "throw"

\* the loop is polling and the command file holds a text to dispatch
NewCommandAtPoll ==
    /\ pc = "sleep" /\ exitCode = Alive
    /\ cmdFile # Missing
    /\ isNewCommand(trim(cmdFile), lastCommand)

\* C1: duplicate suppression.  No dispatch happens while the trimmed content
\* of the command file equals the text dispatched last, and between two
\* changes of that content at most one dispatch happens, also when the same
\* text is written again.
C1_DuplicateSuppression ==
    /\ [](sinceChange <= 1)
    /\ [][DispatchStep => content(cmdFile) # lastCommand]_vars

\* a text was dispatched once, the writer has written all it had to write, the
\* file still holds that text and the loop is polling
C1_Witness ==
    /\ pc = "sleep"
    /\ writesLeft = 0
    /\ log = <<<<"t", "i", "t", "l", "e">>>>
    /\ cmdFile = <<" ", "t", "i", "t", "l", "e", "\n">>
    /\ sinceChange = 1

\* C2: once quit has been dispatched, running is false and quit stays the
\* last command dispatched, whatever the command file holds afterwards.
C2_QuitIsFinal ==
    \A i \in 1..Len(log) :
        isQuit(log[i]) => i = Len(log) /\ ~running

\* quit was dispatched, its close failed (the process lives), and a new
\* command has been written since
C2_Witness ==
    /\ isQuit(lastCommand)
    /\ exitCode = Alive
    /\ executing = <<>>
    /\ cmdFile = <<"t", "i", "t", "l", "e">>

\* C3: when the action of a command other than quit fails, the result handed
\* to writeResult begins with "ERROR:", running stays true and the loop goes
\* back to polling, where a command that differs from lastCommand is
\* dispatched once the writer leaves the file alone (it has no write left).
C3_FailureIsNotFatal ==
    /\ [][(CompletionStep /\ ~isQuit(Head(executing).cmd) /\ ActionFails) =>
            /\ writeCalls' = writeCalls + 1
            /\ lastWrite' = "written" => startsWith(resultFile', <<"E", "R", "R", "O", "R", ":">>)
            /\ running' /\ pc' = "sleep" /\ exitCode' = Alive]_vars
    /\ (NewCommandAtPoll /\ writesLeft = 0) ~> (lastCommand = content(cmdFile))

\* a command failed, its error is in the result file, and the next command
\* was dispatched
C3_Witness ==
    /\ Len(log) = 2
    /\ ~isQuit(log[1])
    /\ resultFile = ErrorResult
    /\ lastWrite = "none"
    /\ executing # <<>>

\* C4: running goes from true to false only in the step that dispatches quit;
\* the dispatch of another command and the end of any command leave it as it
\* was.
C4_OnlyQuitStops ==
    [][/\ (running /\ ~running') => (DispatchStep /\ isQuit(lastCommand'))
       /\ (DispatchStep /\ ~isQuit(lastCommand')) => running' = running
       /\ CompletionStep => running' = running]_vars

\* two commands ended and left the session running, then quit stopped it
C4_Witness ==
    /\ Len(log) = 3
    /\ isQuit(log[3])
    /\ ~running

\* C5: at most one command is being executed, and while one is, the loop
\* waits for it: it is not at the point where it reads the command file.
C5_Sequential ==
    /\ Len(executing) <= 1
    /\ executing # <<>> => pc = "await"

\* a command is being executed while the file already holds the next one
C5_Witness ==
    /\ Len(executing) = 1
    /\ cmdFile # Missing
    /\ isNewCommand(trim(cmdFile), lastCommand)

\* the writer has written its last text, which the session has not dispatched
LastCommandWaiting ==
    /\ running
    /\ writesLeft = 0
    /\ cmdFile # Missing
    /\ isNewCommand(trim(cmdFile), lastCommand)

\* C6 as stated: a command that stays in the file is dispatched and its result
\* is written to the result file (read in its favour: writeResult is called
\* with the result, whether or not the file system accepts the write).
C6_Original ==
    LastCommandWaiting ~>
        (/\ lastCommand = content(cmdFile)
         /\ executing = <<>>
         /\ lastWrite \in {"written", "failed"})

\* C6, amended: a command that stays in the file is dispatched and its
\* execution ends; unless it is quit, writeResult is then called with its
\* result (the call may fail).
C6_Liveness ==
    LastCommandWaiting ~>
        (/\ lastCommand = content(cmdFile)
         /\ executing = <<>>
         /\ isQuit(lastCommand) \/ lastWrite \in {"written", "failed"})

\* the command in the file was dispatched and its result is in the result file
C6_Witness ==
    /\ pc = "sleep"
    /\ writesLeft = 0
    /\ Len(log) >= 1
    /\ lastCommand = content(cmdFile)
    /\ lastWrite = "written"
    /\ resultFile = <<"N", "a", "v", "i", "g", "a", "t", "e", "d", " ", "t", "o", ":", " ">> \o SiteUSlash

\* C7: the end of a command other than quit calls writeResult exactly once,
\* and a write that succeeds leaves in the file exactly the result of that
\* command, which is the command of lastCommand; no other step of the poll
\* loop writes the result file.
C7_SingleResult ==
    [][/\ (CompletionStep /\ ~isQuit(Head(executing).cmd)) =>
            /\ writeCalls' = writeCalls + 1
            /\ Head(executing).cmd = lastCommand
            /\ lastWrite' = "written" =>
                  resultFile' = executeCommand(Head(executing).cmd,
                                               Head(executing).env, pageUrl).value
       /\ writeCalls' # writeCalls =>
            CompletionStep \/ pc \in {"launching", "navigating"}]_vars

\* the result of a second command has replaced the one of the first
C7_Witness ==
    /\ Len(log) = 2
    /\ log[1] = <<"b", "o", "g", "u", "s">>
    /\ executing = <<>>
    /\ lastWrite = "written"
    /\ resultFile = <<"T", "i", "t", "l", "e", ":", " ">> \o PageTitle

\* C8 as stated: no text is dispatched twice in a session.
C8_Original ==
    \A i, j \in 1..Len(log) : i # j => log[i] # log[j]

\* C8, amended: no text is dispatched twice in a row.
C8_NoConsecutiveDuplicate ==
    \A i \in 1..(Len(log) - 1) : log[i] # log[i + 1]

\* a text was dispatched again after another one
C8_Witness ==
    /\ Len(log) = 3
    /\ log[1] = log[3]

\* C9 as stated: the failure of an action, the close of quit included, leaves
\* the process alive and the loop polling, with the error in the result file.
C9_Original ==
    [][(CompletionStep /\ ActionFails) =>
            /\ exitCode' = Alive
            /\ running' /\ pc' = "sleep"
            /\ writeCalls' = writeCalls + 1
            /\ lastWrite' = "written" => resultFile' = ErrorResult]_vars

\* C9, amended: the failure of an action leaves the process alive and its
\* error is handed to writeResult; the loop goes on polling unless the
\* command was quit, whose failed close leaves the loop stopped.
C9_OnlyStartupIsFatal ==
    [][(CompletionStep /\ ActionFails) =>
            /\ exitCode' = Alive
            /\ pc' = (IF isQuit(Head(executing).cmd) THEN "stopped" ELSE "sleep")
            /\ running' = ~isQuit(Head(executing).cmd)
            /\ writeCalls' = writeCalls + 1
            /\ lastWrite' = "written" => resultFile' = ErrorResult]_vars

\* the close of quit failed: the error is in the result file, the process
\* lives and the loop has ended
C9_Witness ==
    /\ pc = "stopped"
    /\ exitCode = Alive
    /\ isQuit(lastCommand)
    /\ lastWrite = "written"
    /\ resultFile = ErrorResult

\* C10 as stated: executeCommand returns a string for every command and every
\* behaviour of the browser.
C10_Original ==
    executing # <<>> =>
        executeCommand(Head(executing).cmd, Head(executing).env, pageUrl).kind
            = "return"

\* C10, amended: executeCommand never throws: it returns a string, which is
\* "ERROR: <message>" when the action failed, or, for a quit whose close
\* succeeded, ends the process.
C10_NeverRaises ==
    executing # <<>> =>
        LET e == Head(executing)
            r == executeCommand(e.cmd, e.env, pageUrl)
        IN  /\ r.kind \in {"return", "exit"}
            /\ r.kind = "exit" => isQuit(e.cmd) /\ ~ActionFails
            /\ ActionFails => r.kind = "return" /\ r.value = ErrorResult

\* a fill is under way that the browser will fail
C10_Witness ==
    /\ executing # <<>>
    /\ Head(executing).cmd = <<"t", "y", "p", "e", ":", "#", "f", ":", "h", "e", "l", "l", "o", ":", "w", "o", "r", "l", "d">>
    /\ ActionFails

\* the command dispatched last before the i-th that can move the page, or 0
lastNavigation(i) ==
    LET ks == {k \in 1..(i - 1) : navigates(log[k])}
    IN  IF ks = {} THEN 0 ELSE CHOOSE k \in ks : \A j \in ks : j <= k

\* C11: when url ends, and the last command before it that can move the page
\* was a goto that succeeded, the result of url is "URL: " followed by the URL
\* which that goto reported after "Navigated to: ".
C11_UrlAfterGoto ==
    \A i \in 1..Len(results) :
        LET k == lastNavigation(i) IN
        (/\ toLowerCase(log[i]) = <<"u", "r", "l">>
         /\ k > 0
         /\ startsWith(log[k], <<"g", "o", "t", "o", ":">>)
         /\ startsWith(results[k], <<"N", "a", "v", "i", "g", "a", "t", "e", "d", " ", "t", "o", ":", " ">>))
        => results[i] = <<"U", "R", "L", ":", " ">> \o substring(results[k], 14)

\* a goto reached "u/", a command that does not navigate followed, then url
C11_Witness ==
    /\ Len(results) = 3
    /\ log[1] = <<"g", "o", "t", "o", ":", "u">>
    /\ log[2] = <<"t", "i", "t", "l", "e">>
    /\ log[3] = <<"u", "r", "l">>
    /\ results[1] = <<"N", "a", "v", "i", "g", "a", "t", "e", "d", " ", "t", "o", ":", " ">> \o SiteUSlash
    /\ results[3] = <<"U", "R", "L", ":", " ">> \o SiteUSlash

\* the index of the first colon of a text, or 0
firstColon(s) ==
    IF \E k \in 1..Len(s) : s[k] = ":"
    THEN CHOOSE k \in 1..Len(s) : s[k] = ":" /\ \A j \in 1..(k - 1) : s[j] # ":"
    ELSE 0

\* the i-th command ended as a type:<selector>:<text> whose fill succeeded
TypedAt(i) ==
    /\ startsWith(log[i], <<"t", "y", "p", "e", ":">>)
    /\ firstColon(substring(log[i], 5)) > 0
    /\ ~startsWith(results[i], <<"E", "R", "R", "O", "R", ":">>)

\* what stands between "type:" and the next colon, and what stands after it
selectorPart(command) ==
    LET args == substring(command, 5) IN SubSeq(args, 1, firstColon(args) - 1)

textPart(command) ==
    LET args == substring(command, 5) IN SubSeq(args, firstColon(args) + 1, Len(args))

\* C12 as stated: the selector is what stands between "type:" and the next
\* colon and the text is all that follows that colon, as they stand; the
\* result, built from the two arguments of the fill, names both.
C12_Original ==
    \A i \in 1..Len(results) :
        TypedAt(i) =>
            results[i] = <<"T", "y", "p", "e", "d", " ", "\\", "\"">> \o textPart(log[i]) \o <<"\\", "\"", " ", "i", "n", "t", "o", " ">>
                            \o selectorPart(log[i])

\* C12, amended: the same, with the white space around the selector and
\* around the text removed.
C12_TypeParsing ==
    \A i \in 1..Len(results) :
        TypedAt(i) =>
            results[i] = <<"T", "y", "p", "e", "d", " ", "\\", "\"">> \o trim(textPart(log[i])) \o <<"\\", "\"", " ", "i", "n", "t", "o", " ">>
                            \o trim(selectorPart(log[i]))

\* the text after the first colon holds a colon itself
C12_Witness ==
    /\ log = << <<"t", "y", "p", "e", ":", "#", "f", ":", "h", "e", "l", "l", "o", ":", "w", "o", "r", "l", "d">> >>
    /\ results = << <<"T", "y", "p", "e", "d", " ", "\\", "\"", "h", "e", "l", "l", "o", ":", "w", "o", "r", "l", "d", "\\", "\"", " ", "i", "n", "t", "o", " ", "#", "f">> >>

\* the command that ends in this step
EndingCommand == Head(executing).cmd

\* what executeCommand returns for the command that ends in this step
EndingResult == executeCommand(EndingCommand, Head(executing).env, pageUrl)

\* the result of the command does not depend on what the browser and the file
\* system do: none of their calls is made
NoBrowserAction(command) ==
    /\ numCalls(command) = 0
    /\ \A ok \in [1..3 -> BOOLEAN], dest \in URLs :
          executeCommand(command, [ok |-> ok, empty |-> FALSE, dest |-> dest, anchors |-> NoAnchors], pageUrl)
            = executeCommand(command, Head(executing).env, pageUrl)

\* the step leaves running, the browser, its context and the page as they were
SessionUnchanged ==
    /\ running' = running
    /\ browser' = browser
    /\ context' = context
    /\ pageUrl' = pageUrl
    /\ exitCode' = Alive

\* the dispatch and the end of a scroll:<d> whose direction is not known;
\* unknownNext and unknownEnding say so of the direction of the command that
\* is dispatched, and of the one that ends, in the step
UnknownScroll(unknownNext, unknownEnding) ==
    /\ (DispatchStep /\ startsWith(lastCommand', <<"s", "c", "r", "o", "l", "l", ":">>) /\ unknownNext)
          => SessionUnchanged
    /\ (CompletionStep /\ startsWith(EndingCommand, <<"s", "c", "r", "o", "l", "l", ":">>) /\ unknownEnding) =>
          /\ EndingResult.kind = "return"
          /\ startsWith(EndingResult.value, <<"U", "n", "k", "n", "o", "w", "n", " ", "s", "c", "r", "o", "l", "l", " ", "d", "i", "r", "e", "c", "t", "i", "o", "n", ":">>)
          /\ ~startsWith(EndingResult.value, <<"E", "R", "R", "O", "R", ":">>)
          /\ NoBrowserAction(EndingCommand)
          /\ SessionUnchanged
          /\ pc' = "sleep"

outsideAsWritten(d) == d \notin ScrollDirections

outsideNormalised(d) == toLowerCase(trim(d)) \notin ScrollDirections

\* C13 as stated: scroll:<d> with d, as written, outside {up, down, top,
\* bottom} returns "Unknown scroll direction: ...", makes no browser call,
\* gives no "ERROR:" and leaves running and the browser as they were.
C13_Original ==
    [][UnknownScroll(outsideAsWritten(substring(lastCommand', 7)),
                     outsideAsWritten(substring(EndingCommand, 7)))]_vars

\* C13, amended: the same for every d that is outside {up, down, top, bottom}
\* once it is trimmed and put in lower case.
C13_UnknownScroll ==
    [][UnknownScroll(outsideNormalised(substring(lastCommand', 7)),
                     outsideNormalised(substring(EndingCommand, 7)))]_vars

\* scroll:sideways has ended and the loop polls again
C13_Witness ==
    /\ log = << <<"s", "c", "r", "o", "l", "l", ":", "s", "i", "d", "e", "w", "a", "y", "s">> >>
    /\ results = << <<"U", "n", "k", "n", "o", "w", "n", " ", "s", "c", "r", "o", "l", "l", " ", "d", "i", "r", "e", "c", "t", "i", "o", "n", ":", " ", "s", "i", "d", "e", "w", "a", "y", "s">> >>
    /\ pc = "sleep"
    /\ running

\* the tags that executeCommand compares with the whole text (lines 433-476)
ExactTags ==
    { <<"s", "c", "r", "e", "e", "n", "s", "h", "o", "t">>, <<"t", "e", "x", "t">>, <<"h", "t", "m", "l">>, <<"u", "r", "l">>, <<"t", "i", "t", "l", "e">>, <<"t", "a", "b", "l", "e", "s">>,
      <<"l", "i", "n", "k", "s">>, <<"b", "a", "c", "k">>, <<"f", "o", "r", "w", "a", "r", "d">>, <<"r", "e", "f", "r", "e", "s", "h">>, <<"q", "u", "i", "t">> }

\* the text is the tag, each letter in either case
caseVariant(text, tag) ==
    /\ Len(text) = Len(tag)
    /\ \A i \in 1..Len(tag) :
          \/ text[i] = tag[i]
          \/ \E k \in 1..26 : LowerCase[k] = tag[i] /\ UpperCase[k] = text[i]

\* the text is a variant of the tag followed by something
tagWithMore(text, tag) ==
    /\ Len(text) > Len(tag)
    /\ caseVariant(SubSeq(text, 1, Len(tag)), tag)

\* C14: a command that is an exact tag in any letter case does what the tag
\* in lower case does (the same calls, the same result, the same effect on
\* the session), and a command that is such a tag followed by anything is not
\* that command: it is answered as an unknown command, without browser call.
C14_ExactTags ==
    executing # <<>> =>
        \A tag \in ExactTags :
            /\ caseVariant(EndingCommand, tag) =>
                  /\ EndingResult = executeCommand(tag, Head(executing).env, pageUrl)
                  /\ numCalls(EndingCommand) = numCalls(tag)
                  /\ navigates(EndingCommand) = navigates(tag)
                  /\ runningAfter(EndingCommand, TRUE) = runningAfter(tag, TRUE)
            /\ tagWithMore(EndingCommand, tag) =>
                  /\ EndingResult = Return(<<"E", "R", "R", "O", "R", ":", " ", "U", "n", "k", "n", "o", "w", "n", " ", "c", "o", "m", "m", "a", "n", "d", ":", " ">> \o EndingCommand)
                  /\ NoBrowserAction(EndingCommand)

\* TITLE was answered with the title of the page
C14_Witness ==
    /\ log = << <<"T", "I", "T", "L", "E">> >>
    /\ results = << <<"T", "i", "t", "l", "e", ":", " ">> \o PageTitle >>

\* the tags that executeCommand compares with the beginning of the text
\* (lines 489-514)
PrefixTags == { <<"g", "o", "t", "o", ":">>, <<"c", "l", "i", "c", "k", ":">>, <<"t", "y", "p", "e", ":">>, <<"w", "a", "i", "t", ":">>, <<"s", "c", "r", "o", "l", "l", ":">> }

\* the text is no exact tag in any letter case and begins with no prefixed tag
matchesNoTag(text) ==
    /\ \A tag \in ExactTags : ~caseVariant(text, tag)
    /\ \A p \in PrefixTags : ~(Len(text) >= Len(p) /\ SubSeq(text, 1, Len(p)) = p)

\* C15: a command that matches no tag ends with the result "ERROR: Unknown
\* command: <text>", which is handed to writeResult (and is the content of
\* the result file when the write succeeds); no browser call is made, nothing
\* is thrown, and the loop goes on polling with running true.
C15_UnknownCommand ==
    [][(CompletionStep /\ matchesNoTag(EndingCommand)) =>
          /\ EndingResult = Return(<<"E", "R", "R", "O", "R", ":", " ", "U", "n", "k", "n", "o", "w", "n", " ", "c", "o", "m", "m", "a", "n", "d", ":", " ">> \o EndingCommand)
          /\ dispatch(EndingCommand, Head(executing).env, pageUrl).kind = "return"
          /\ NoBrowserAction(EndingCommand)
          /\ writeCalls' = writeCalls + 1
          /\ lastWrite' = "written" =>
                resultFile' = <<"E", "R", "R", "O", "R", ":", " ", "U", "n", "k", "n", "o", "w", "n", " ", "c", "o", "m", "m", "a", "n", "d", ":", " ">> \o EndingCommand
          /\ SessionUnchanged
          /\ running' /\ pc' = "sleep"]_vars

\* GOTO:u was answered as an unknown command and the loop polls again
C15_Witness ==
    /\ log = << <<"G", "O", "T", "O", ":", "u">> >>
    /\ resultFile = <<"E", "R", "R", "O", "R", ":", " ", "U", "n", "k", "n", "o", "w", "n", " ", "c", "o", "m", "m", "a", "n", "d", ":", " ", "G", "O", "T", "O", ":", "u">>
    /\ lastWrite = "written"
    /\ pc = "sleep"
    /\ running

\* the step dispatches nothing, calls writeResult for nothing and leaves
\* lastCommand, running and the result file as they were; the loop is at its
\* sleep again
NoOpCycle ==
    /\ log' = log
    /\ executing' = executing
    /\ writeCalls' = writeCalls
    /\ resultFile' = resultFile
    /\ lastCommand' = lastCommand
    /\ running' = running
    /\ exitCode' = Alive
    /\ pc' = "sleep"

\* the loop is about to poll
AtPoll == pc = "sleep" /\ exitCode = Alive

\* a step of the program: not one of the writer of the command file, nor one
\* of the reader, who empties the result file
ProgramStep ==
    /\ writesLeft' = writesLeft
    /\ ~(resultFile # <<>> /\ resultFile' = <<>>)

\* the file is there and holds nothing but white space
whitespaceOnly(file) ==
    file # Missing /\ \A i \in 1..Len(file) : file[i] \in WhiteSpace

\* C16: a poll that finds the command file empty or holding only white space
\* is a no-op: the program dispatches nothing, does not write the result file
\* and leaves lastCommand and running as they were.
C16_EmptyIsNoCommand ==
    [][(AtPoll /\ whitespaceOnly(cmdFile) /\ ProgramStep) => NoOpCycle]_vars

\* a command was dispatched, then the file was left with white space only
C16_Witness ==
    /\ AtPoll
    /\ cmdFile = <<" ", "\n">>
    /\ lastCommand = <<"t", "i", "t", "l", "e">>
    /\ writesLeft = 0
    /\ Len(log) = 1

\* C17: a poll that finds no command file, and a poll whose read of the file
\* fails, dispatch nothing, leave lastCommand and running as they were and do
\* not write the result file; the loop goes on, so that a command that waits
\* in the file when the read failed is dispatched by a later poll.
C17_PollErrorsSwallowed ==
    /\ [][/\ (AtPoll /\ cmdFile = Missing /\ ProgramStep) => NoOpCycle
          /\ readErrors' = readErrors + 1 => NoOpCycle]_vars
    /\ (readErrors = MaxReadErrors /\ NewCommandAtPoll /\ writesLeft = 0)
          ~> (lastCommand = content(cmdFile))

\* the read of a file that holds a command failed: nothing was dispatched
\* and the loop polls again
C17_Witness ==
    /\ AtPoll
    /\ readErrors = 1
    /\ cmdFile = <<"t", "i", "t", "l", "e">>
    /\ log = <<>>
    /\ running

\* the number that parseInt reads in the argument of a wait:<n>
waitArgument(command) == parseInt(trim(substring(command, 5)))

\* C18 as stated: a wait:<n> whose argument parses as an integer n, 0
\* included, suspends the loop for n seconds and returns "Waited n seconds";
\* the default of 2 seconds is used only when the argument does not parse.
C18_Original ==
    (executing # <<>> /\ startsWith(EndingCommand, <<"w", "a", "i", "t", ":">>)) =>
        LET n == waitArgument(EndingCommand)
            seconds == IF n = NaN THEN 2 ELSE n[1]
        IN  /\ EndingResult.kind = "return"
            /\ EndingResult.sleepMs = seconds * 1000
            /\ EndingResult.value = <<"W", "a", "i", "t", "e", "d", " ">> \o numberToString(seconds) \o <<" ", "s", "e", "c", "o", "n", "d", "s">>

\* wait:0 has ended: the loop was suspended for 2 seconds
C18_Witness ==
    /\ log = << <<"w", "a", "i", "t", ":", "0">> >>
    /\ results = << <<"W", "a", "i", "t", "e", "d", " ", "2", " ", "s", "e", "c", "o", "n", "d", "s">> >>
    /\ pc = "sleep"

\* a browser or a persistent context was launched
Launched == browser # "null" \/ context # "null"

\* the step in which the process ends: by main().catch after start() was
\* rejected, or at the end of a command (quit)
EndByQuitOrFatalError ==
    /\ exitCode = Alive /\ exitCode' # Alive
    /\ pc = "rejected" \/ CompletionStep

\* C19 as stated: when a browser was launched and the process ends, by quit
\* or by a top-level fatal error, close has been called exactly once.
C19_Original ==
    [][(EndByQuitOrFatalError /\ Launched) => closeCalls' = 1]_vars

\* the browser was launched, the write of READY failed and rejected start(),
\* and the process ended with status 1 without a call of close
C19_Witness ==
    /\ exitCode = Exited(1)
    /\ browser = "open"
    /\ context = "open"
    /\ writeCalls = 1
    /\ lastWrite = "failed"
    /\ closeCalls = 0

\* the step in which the process ends with status 0
ExitStep == exitCode = Alive /\ exitCode' = Exited(0)

\* C20: quit sets running to false first, then releases the browser, and the
\* process ends with status 0 only in the step in which that release ends
\* with success: running is false from the dispatch of quit on, the close was
\* called before the step that ends the process, and no other step ends it
\* with status 0.
C20_QuitOrder ==
    /\ [](\A i \in 1..Len(executing) : isQuit(executing[i].cmd) =>
             ~running /\ closeCalls = 1 /\ exitCode = Alive)
    /\ [][(DispatchStep /\ isQuit(lastCommand')) =>
             running /\ ~running' /\ closeCalls' = closeCalls + 1
             /\ context' = context /\ exitCode' = Alive]_vars
    /\ [][ExitStep =>
             /\ CompletionStep /\ isQuit(EndingCommand) /\ ~ActionFails
             /\ ~running /\ closeCalls = 1 /\ context = "open"
             /\ context' = "closed"]_vars

\* the process has ended with status 0 after the release
C20_Witness ==
    /\ exitCode = Exited(0)
    /\ isQuit(lastCommand)
    /\ context = "closed"
    /\ ~running

\* start() has failed: its promise is rejected, or the process has ended
\* with status 1
StartFailed == pc = "rejected" \/ exitCode = Exited(1)

\* the step in which the launch fails
LaunchFails == pc = "launching" /\ pc' \in {"rejected", "exited"}

\* C21: when the launch of the browser or of the profile fails, start() has
\* failed; from then on running is false, no READY has been written and
\* nothing is dispatched; and the process, started by the command line, ends
\* with status 1.
C21_LaunchFailureIsFatal ==
    /\ [][LaunchFails => StartFailed' /\ exitCode' \in {Alive, Exited(1)}]_vars
    /\ [](StartFailed =>
             /\ ~running /\ log = <<>> /\ executing = <<>>
             /\ lastWrite # "written" /\ resultFile # ReadyText)
    /\ [][StartFailed => StartFailed']_vars
    /\ (pc = "rejected" /\ config # Null) ~> (exitCode = Exited(1))

\* the launch failed and the process has ended with status 1
C21_Witness ==
    /\ exitCode = Exited(1)
    /\ browser = "null" /\ context = "null"
    /\ writeCalls = 0
    /\ log = <<>>
\* start() is called on an object straight after its construction
StartAfterConstruction == pc = "new" /\ pc' # "new" /\ config' = Null

\* C22: a WebPilot that is constructed and then started, with no other call
\* in between, launches the browser (and so goes on to READY and to polling).
C22_Original == [][StartAfterConstruction => pc' = "launching"]_vars

\* start() straight after the construction was rejected: nothing was
\* launched, no READY was written and the loop does not run
C22_Witness ==
    /\ pc = "rejected" /\ config = Null
    /\ browser = "null" /\ context = "null"
    /\ writeCalls = 0 /\ ~running


\* C23: whenever sendCommand returns a non-empty string, the dispatch of the
\* command it sent (the first dispatch after its write of the command file)
\* has ended, so that the string is the result of this command and not of an
\* earlier one.
C23_Original ==
    (client.pc = "returned" /\ client.returned # <<>>) =>
        /\ client.doneAt > client.sentAt
        /\ log[client.sentAt + 1] = trim(client.command)

\* sendCommand returned a non-empty string although no dispatch that began
\* after its write had ended: the string is the result of an earlier command
C23_Witness ==
    /\ client.pc = "returned" /\ client.returned # <<>>
    /\ client.doneAt <= client.sentAt


\* the options that take an argument
NeedsArgument == UrlOptions \cup DirOptions \cup { <<"-", "-", "b", "r", "o", "w", "s", "e", "r">>, <<"-", "-", "p", "r", "o", "f", "i", "l", "e">> }

\* no --help or -h among the first n arguments
noHelpBefore(args, n) == \A j \in 1..n : args[j] \notin HelpOptions

\* --help or -h is the first argument
helpGiven(args) == args # <<>> /\ args[1] \in HelpOptions

\* --browser is given with a value other than chrome or edge
invalidBrowser(args) ==
    \E i \in 1..(Len(args) - 1) :
        /\ args[i] = <<"-", "-", "b", "r", "o", "w", "s", "e", "r">>
        /\ i = 1 \/ args[i - 1] \notin NeedsArgument
        /\ toLowerCase(args[i + 1]) \notin { <<"c", "h", "r", "o", "m", "e">>, <<"e", "d", "g", "e">> }
        /\ noHelpBefore(args, i)

\* the last argument is an option that takes an argument
missingArgument(args) ==
    /\ args # <<>>
    /\ args[Len(args)] \in NeedsArgument
    /\ Len(args) = 1 \/ args[Len(args) - 1] \notin NeedsArgument
    /\ noHelpBefore(args, Len(args))

\* the command line has ended with the given status and a message, and
\* nothing was launched
EndedBeforeLaunch(status) ==
    /\ exitCode = Exited(status)
    /\ cli.pc = "exited" /\ cli.printed \in {"usage", "invalid browser", "error"}
    /\ pc = "exited" /\ config = Null
    /\ browser = "null" /\ context = "null"

\* C24: once main() is past parseArgs, --help or -h has printed the usage and
\* ended the process with status 0, and an invalid --browser value or an
\* option without its argument has ended it with status 1 and a message,
\* before anything is launched.
C24_Original ==
    cli.pc \notin {"none", "argv"} =>
        /\ helpGiven(cli.args) => EndedBeforeLaunch(0) /\ cli.printed = "usage"
        /\ (invalidBrowser(cli.args) \/ missingArgument(cli.args)) =>
               EndedBeforeLaunch(1)

\* --url without a value: the browser was launched and READY was written
C24_Witness ==
    /\ missingArgument(cli.args)
    /\ cli.pc = "started"
    /\ running /\ pc = "sleep" /\ context = "open"

\* the writer replaces or removes a command that the loop has not read
OverwritesPending ==
    /\ writesLeft' < writesLeft
    /\ cmdFile # Missing /\ isNewCommand(trim(cmdFile), lastCommand)
    /\ content(cmdFile') # content(cmdFile)

\* C25: a step dispatches at most one command, and that command is the
\* trimmed content of the command file at the moment of the read; the step
\* that overwrites a command the loop has not read dispatches nothing and
\* writes no result, so that the overwritten text is dispatched only if it is
\* in the file again at a later read.
C25_LastWriteWins ==
    /\ [][log' = log \/ DispatchStep]_vars
    /\ [][DispatchStep =>
             /\ cmdFile # Missing /\ cmdFile' = cmdFile
             /\ log' = Append(log, trim(cmdFile))
             /\ Len(executing') = Len(executing) + 1
             /\ executing'[Len(executing')].cmd = trim(cmdFile)]_vars
    /\ [][OverwritesPending =>
             /\ log' = log /\ executing' = executing
             /\ results' = results /\ resultFile' = resultFile
             /\ lastCommand' = lastCommand]_vars

\* three writes and one dispatch: goto:u was dispatched, and of the other two
\* writes only the last, title, is left for the loop to read
C25_Witness ==
    /\ writesLeft = 0
    /\ log = << <<"g", "o", "t", "o", ":", "u">> >> /\ executing # <<>>
    /\ cmdFile = <<"t", "i", "t", "l", "e">>
    /\ sinceChange = 0


\* the tags compared with the lower-cased text (lines 433-476)
SimpleTags ==
    { <<"s", "c", "r", "e", "e", "n", "s", "h", "o", "t">>, <<"t", "e", "x", "t">>, <<"h", "t", "m", "l">>, <<"u", "r", "l">>, <<"t", "i", "t", "l", "e">>, <<"t", "a", "b", "l", "e", "s">>,
      <<"l", "i", "n", "k", "s">>, <<"b", "a", "c", "k">>, <<"f", "o", "r", "w", "a", "r", "d">>, <<"r", "e", "f", "r", "e", "s", "h">>, <<"q", "u", "i", "t">> }

\* the branch of executeCommand that a text takes and the arguments the
\* branch computes from it (lines 430-517)
tagAndArguments(command) ==
    LET cmd == toLowerCase(command) IN
    IF cmd \in SimpleTags THEN [tag |-> cmd, args |-> <<>>]
    ELSE IF startsWith(command, <<"g", "o", "t", "o", ":">>)
    THEN [tag |-> <<"g", "o", "t", "o">>, args |-> <<trim(substring(command, 5))>>]
    ELSE IF startsWith(command, <<"c", "l", "i", "c", "k", ":">>)
    THEN [tag |-> <<"c", "l", "i", "c", "k">>, args |-> <<trim(substring(command, 6))>>]
    ELSE IF startsWith(command, <<"t", "y", "p", "e", ":">>)
    THEN LET parts == split(substring(command, 5)) IN
         [tag |-> <<"t", "y", "p", "e">>, args |-> <<trim(parts[1]), trim(join(Tail(parts)))>>]
    ELSE IF startsWith(command, <<"w", "a", "i", "t", ":">>)
    THEN LET n == parseInt(trim(substring(command, 5))) IN
         [tag |-> <<"w", "a", "i", "t">>,
          args |-> <<numberToString(IF n = NaN \/ n = <<0>> THEN 2 ELSE n[1])>>]
    ELSE IF startsWith(command, <<"s", "c", "r", "o", "l", "l", ":">>)
    THEN [tag |-> <<"s", "c", "r", "o", "l", "l">>, args |-> <<toLowerCase(trim(substring(command, 7)))>>]
    ELSE [tag |-> <<"u", "n", "k", "n", "o", "w", "n">>, args |-> <<command>>]

\* the mutant of selectCommand: on the blank page every text is unknown
selectCommandByPage(command, env, url) ==
    IF url = AboutBlank THEN [tag |-> <<"u", "n", "k", "n", "o", "w", "n">>, args |-> <<command>>]
    ELSE tagAndArguments(command)

\* the same, as executeCommand makes the choice: with the session (the page
\* and what the browser will answer) at hand
selectCommand(command, env, url) == tagAndArguments(command)

\* the result r is one that the branch sel of executeCommand produces
resultFits(sel, r) ==
    LET tag == sel.tag
        v == r.value
    IN
    IF r.kind = "exit" THEN tag = <<"q", "u", "i", "t">>
    ELSE IF r.kind = "throw" THEN FALSE
    ELSE
      \/ v = ErrorResult /\ tag \notin { <<"u", "r", "l">>, <<"w", "a", "i", "t">>, <<"u", "n", "k", "n", "o", "w", "n">> }
      \/ tag = <<"s", "c", "r", "e", "e", "n", "s", "h", "o", "t">> /\ startsWith(v, <<"S", "c", "r", "e", "e", "n", "s", "h", "o", "t", " ", "s", "a", "v", "e", "d", ":", " ">>)
      \/ tag = <<"t", "e", "x", "t">> /\ v = PageText
      \/ tag = <<"h", "t", "m", "l">> /\ startsWith(v, <<"H", "T", "M", "L", " ", "s", "a", "v", "e", "d", ":", " ">>)
      \/ tag = <<"u", "r", "l">> /\ startsWith(v, <<"U", "R", "L", ":", " ">>)
      \/ tag = <<"t", "i", "t", "l", "e">> /\ startsWith(v, <<"T", "i", "t", "l", "e", ":", " ">>)
      \/ tag = <<"t", "a", "b", "l", "e", "s">> /\ v \in { <<"N", "o", " ", "t", "a", "b", "l", "e", "s", " ", "f", "o", "u", "n", "d", " ", "o", "n", " ", "p", "a", "g", "e">>, <<"<tables>">> }
      \/ tag = <<"l", "i", "n", "k", "s">> /\ startsWith(v, <<"F", "o", "u", "n", "d", " ">>)
      \/ tag = <<"b", "a", "c", "k">> /\ startsWith(v, <<"N", "a", "v", "i", "g", "a", "t", "e", "d", " ", "b", "a", "c", "k", " ", "t", "o", ":", " ">>)
      \/ tag = <<"f", "o", "r", "w", "a", "r", "d">> /\ startsWith(v, <<"N", "a", "v", "i", "g", "a", "t", "e", "d", " ", "f", "o", "r", "w", "a", "r", "d", " ", "t", "o", ":", " ">>)
      \/ tag = <<"r", "e", "f", "r", "e", "s", "h">> /\ startsWith(v, <<"R", "e", "f", "r", "e", "s", "h", "e", "d", ":", " ">>)
      \/ tag = <<"g", "o", "t", "o">> /\ startsWith(v, <<"N", "a", "v", "i", "g", "a", "t", "e", "d", " ", "t", "o", ":", " ">>)
      \/ tag = <<"c", "l", "i", "c", "k">> /\ v = <<"C", "l", "i", "c", "k", "e", "d", ":", " ">> \o sel.args[1]
      \/ tag = <<"t", "y", "p", "e">> /\ v = <<"T", "y", "p", "e", "d", " ", "\\", "\"">> \o sel.args[2] \o <<"\\", "\"", " ", "i", "n", "t", "o", " ">> \o sel.args[1]
      \/ tag = <<"w", "a", "i", "t">> /\ v = <<"W", "a", "i", "t", "e", "d", " ">> \o sel.args[1] \o <<" ", "s", "e", "c", "o", "n", "d", "s">>
      \/ /\ tag = <<"s", "c", "r", "o", "l", "l">>
         /\ IF sel.args[1] \in ScrollDirections THEN startsWith(v, <<"S", "c", "r", "o", "l", "l", "e", "d", " ">>)
            ELSE v = <<"U", "n", "k", "n", "o", "w", "n", " ", "s", "c", "r", "o", "l", "l", " ", "d", "i", "r", "e", "c", "t", "i", "o", "n", ":", " ">> \o sel.args[1]
      \/ tag = <<"u", "n", "k", "n", "o", "w", "n">> /\ v = <<"E", "R", "R", "O", "R", ":", " ", "U", "n", "k", "n", "o", "w", "n", " ", "c", "o", "m", "m", "a", "n", "d", ":", " ">> \o sel.args[1]

ClickEnds == CompletionStep /\ startsWith(EndingCommand, <<"c", "l", "i", "c", "k", ":">>)

\* the argument of the click command that ends
clickArgument == trim(substring(EndingCommand, 6))

\* the order of the attempts of the click that ends: the selector first, the
\* visible text only after the selector failed, the wait for the load state
\* last and only after a click succeeded
ClickOrder ==
    LET env == Head(executing).env
        calls == clickCalls(clickArgument, env)
        bySelector == <<"page.click">> \o clickArgument
        byText == <<"page.click">> \o <<"t", "e", "x", "t", "=">> \o clickArgument
        wait == <<"page.waitForLoadState">>
        has(c) == \E i \in 1..Len(calls) : calls[i] = c
    IN  /\ calls[1] = bySelector
        /\ has(byText) <=> ~env.ok[1]
        /\ has(byText) => calls[2] = byText
        /\ has(wait) <=> (env.ok[1] \/ env.ok[2])
        /\ has(wait) => calls[Len(calls)] = wait
        /\ Len(calls) <= 3

\* C27 as stated: the order of the attempts, 'ERROR: ...' when both clicks
\* fail and 'Clicked: <arg>' otherwise.
C27_Original ==
    [][ClickEnds =>
          LET env == Head(executing).env IN
          /\ ClickOrder
          /\ EndingResult.kind = "return"
          /\ IF ~env.ok[1] /\ ~env.ok[2]
             THEN EndingResult.value = ErrorResult
             ELSE EndingResult.value = <<"C", "l", "i", "c", "k", "e", "d", ":", " ">> \o clickArgument]_vars

\* C27: the order of the attempts; the result is 'ERROR: ...' when both
\* clicks fail and also when a click succeeded and the wait for the load
\* state failed, and 'Clicked: <arg>' in the remaining case.
C27_ClickAttempts ==
    [][ClickEnds =>
          LET env == Head(executing).env IN
          /\ ClickOrder
          /\ EndingResult.kind = "return"
          /\ IF (~env.ok[1] /\ ~env.ok[2]) \/ ~env.ok[3]
             THEN EndingResult.value = ErrorResult
             ELSE EndingResult.value = <<"C", "l", "i", "c", "k", "e", "d", ":", " ">> \o clickArgument]_vars

\* click:#a is being executed: the selector fails, the click by the visible
\* text succeeds, the wait for the load state fails, and the result of the
\* command is an error
C27_Witness ==
    /\ executing # <<>>
    /\ EndingCommand = <<"c", "l", "i", "c", "k", ":", "#", "a">>
    /\ ~Head(executing).env.ok[1]
    /\ Head(executing).env.ok[2]
    /\ ~Head(executing).env.ok[3]
    /\ clickCalls(clickArgument, Head(executing).env)
          = << <<"page.click">> \o <<"#", "a">>, <<"page.click">> \o <<"t", "e", "x", "t", "=", "#", "a">>,
               <<"page.waitForLoadState">> >>
    /\ EndingResult.value = ErrorResult

\* the lines of a text
RECURSIVE splitLines(_)
splitLines(s) ==
    IF \E i \in 1..Len(s) : s[i] = "\n"
    THEN LET i == CHOOSE j \in 1..Len(s) : s[j] = "\n" /\ \A k \in 1..(j - 1) : s[k] # "\n"
         IN  <<SubSeq(s, 1, i - 1)>> \o splitLines(SubSeq(s, i + 1, Len(s)))
    ELSE <<s>>

\* the entries that a links result lists: its non-empty lines after the first
listedEntries(v) ==
    LET nonEmpty(l) == l # <<>> IN SelectSeq(Tail(splitLines(v)), nonEmpty)

\* the count that the first line of a links result states
statedCount(v) == parseInt(substring(v, Len(<<"F", "o", "u", "n", "d", " ">>)))

\* a links command ends in this step and page.evaluate has succeeded
LinksEnds ==
    /\ CompletionStep
    /\ toLowerCase(EndingCommand) = <<"l", "i", "n", "k", "s">>
    /\ Head(executing).env.ok[1]

lastDispatched == IF log = <<>> THEN <<>> ELSE log[Len(log)]

\* C29: lastCommand is the trimmed text of the command dispatched last ('' before
\* the first); it is set in the step in which the dispatch starts, to a text
\* other than the one it held, and the end of a command, an 'ERROR:' result
\* included, leaves it as it is.
C29_LastCommandIsKept ==
    /\ [](lastCommand = lastDispatched)
    /\ [][DispatchStep =>
             /\ lastCommand' = trim(cmdFile) /\ lastCommand' # lastCommand
             /\ Len(executing') = Len(executing) + 1]_vars
    /\ [][CompletionStep =>
             /\ lastCommand = EndingCommand
             /\ lastCommand' = lastCommand]_vars

\* goto:u ended in an error, the file was changed and holds goto:u again, all
\* writes are done, and the loop polls without a second dispatch
C29_Witness ==
    /\ pc = "sleep" /\ executing = <<>>
    /\ log = << <<"g", "o", "t", "o", ":", "u">> >>
    /\ results = << ErrorResult >>
    /\ cmdFile = <<"g", "o", "t", "o", ":", "u">> /\ lastCommand = <<"g", "o", "t", "o", ":", "u">>
    /\ sinceChange = 0
    /\ writesLeft = 0

\* C30: a step that empties or removes the command file leaves lastCommand as
\* it is, a dispatch never repeats the text dispatched before it, and so
\* between two dispatches of one text there is a dispatch of another text.
C30_EmptyingKeepsSuppression ==
    /\ [][content(cmdFile') \in {Missing, <<>>} => lastCommand' = lastCommand]_vars
    /\ [][DispatchStep => trim(cmdFile) # lastDispatched]_vars
    /\ [](\A i, j \in 1..Len(log) :
             (i < j /\ log[i] = log[j]) =>
                 \E k \in (i + 1)..(j - 1) : log[k] # log[i])

\* title was dispatched and answered, the file was then removed or emptied
\* and title was written again: the loop polls and has dispatched title once
C30_Witness ==
    /\ pc = "sleep" /\ executing = <<>>
    /\ log = << <<"t", "i", "t", "l", "e">> >>
    /\ results = << <<"T", "i", "t", "l", "e", ":", " ">> \o PageTitle >>
    /\ cmdFile = <<"t", "i", "t", "l", "e">> /\ lastCommand = <<"t", "i", "t", "l", "e">>
    /\ sinceChange = 0
    /\ writesLeft = 0


\* the step in which start() reaches running = true (lines 375-395)
BecomesRunning == ~running /\ running'

\* C31 as stated: when running becomes true the command file has been deleted
\* and READY has been written, after the launch and the initial navigation;
\* the first read is a later step; and a command that was in the file before
\* the deletion (no writer has acted since the construction) is never
\* dispatched.
C31_Original ==
    /\ [][BecomesRunning =>
             /\ cmdFile' = Missing
             /\ resultFile' = ReadyText /\ lastWrite' = "written"
             /\ pc \in {"launching", "navigating"} /\ context' = "open"
             /\ initialUrl' = "none"
             /\ log' = <<>> /\ pc' = "sleep"]_vars
    /\ [](writesLeft = MaxWrites => log = <<>>)

\* no writer has acted, unlinkSync failed, and the command that an earlier
\* session left in the file was dispatched
C31_Witness ==
    /\ writesLeft = MaxWrites
    /\ log = << <<"t", "i", "t", "l", "e">> >>
    /\ running


\* a quit whose close succeeds ends in this step
QuitEnds ==
    /\ CompletionStep
    /\ isQuit(EndingCommand)
    /\ Head(executing).env.ok[1]

\* C32: a quit whose close succeeds ends the process inside the dispatch and
\* writes nothing: the step leaves the result file and the count of writes as
\* they are; once the process has ended with status 0 the program writes no
\* more, and the file holds READY or the result of an earlier command (or
\* nothing, when its reader has emptied it), never a result of quit.
C32_QuitWritesNothing ==
    /\ [][QuitEnds =>
             /\ exitCode' = Exited(0)
             /\ resultFile' = resultFile
             /\ writeCalls' = writeCalls /\ results' = results]_vars
    /\ [][exitCode = Exited(0) =>
             /\ writeCalls' = writeCalls
             /\ resultFile' \in {resultFile, <<>>}]_vars
    /\ [](exitCode = Exited(0) =>
             \/ resultFile \in {<<>>, ReadyText}
             \/ \E i \in 1..Len(results) : resultFile = results[i])

\* title was answered, then quit ended the process: the result file holds the
\* result of title
C32_Witness ==
    /\ exitCode = Exited(0)
    /\ log = << <<"t", "i", "t", "l", "e">>, <<"q", "u", "i", "t">> >>
    /\ results = << <<"T", "i", "t", "l", "e", ":", " ">> \o PageTitle >>
    /\ resultFile = <<"T", "i", "t", "l", "e", ":", " ">> \o PageTitle


\* a command ends in this step and the write of its result fails
ResultWriteFails == CompletionStep /\ lastWrite' = "failed"

\* C33: when the write of the result fails, the process lives, the loop goes
\* on as running says, the result file is as it was and lastCommand still
\* holds the text of the command; a dispatch happens only if none has
\* happened since the content of the command file changed, and while the
\* loop runs a result is written only by the end of a dispatch, so the
\* command gets no second dispatch and no result while the content stays.
C33_WriteFailureIsSwallowed ==
    /\ [][ResultWriteFails =>
             /\ exitCode' = Alive
             /\ running' = running /\ pc' = loopNext(running)
             /\ resultFile' = resultFile
             /\ lastCommand' = EndingCommand]_vars
    /\ [][DispatchStep => sinceChange = 0 /\ trim(cmdFile) # lastCommand]_vars
    /\ [][(running /\ writeCalls' # writeCalls) => CompletionStep]_vars

\* the write of the result of title failed: the loop polls, the result file
\* still holds READY, the command file still holds title and title is not
\* dispatched again
C33_Witness ==
    /\ pc = "sleep" /\ running /\ executing = <<>>
    /\ lastWrite = "failed" /\ writeCalls = 2
    /\ log = << <<"t", "i", "t", "l", "e">> >> /\ lastCommand = <<"t", "i", "t", "l", "e">>
    /\ content(cmdFile) = <<"t", "i", "t", "l", "e">>
    /\ resultFile = ReadyText
    /\ sinceChange = 1


\* the text begins with the letters of the prefixed tag p, not all of them
\* in lower case
prefixInOtherCase(text, p) ==
    /\ Len(text) >= Len(p)
    /\ caseVariant(SubSeq(text, 1, Len(p)), p)
    /\ ~startsWith(text, p)

\* arg stands in the text letter for letter
standsIn(arg, text) ==
    \E i \in 1..(Len(text) + 1) : \E j \in (i - 1)..Len(text) : SubSeq(text, i, j) = arg

\* C34: a command that begins with a prefixed tag in another letter case is
\* answered as an unknown command, without browser call and without effect on
\* the session; the arguments of goto:, click: and type: stand in the text
\* letter for letter and the result of the command is the one of the tag with
\* these arguments; the direction of scroll: is the trimmed rest of the text in
\* lower case.
C34_PrefixedTags ==
    [][CompletionStep =>
          LET c == EndingCommand
              sel == selectCommand(c, Head(executing).env, pageUrl)
          IN  /\ \A p \in PrefixTags : prefixInOtherCase(c, p) =>
                    /\ EndingResult = Return(<<"E", "R", "R", "O", "R", ":", " ", "U", "n", "k", "n", "o", "w", "n", " ", "c", "o", "m", "m", "a", "n", "d", ":", " ">> \o c)
                    /\ NoBrowserAction(c)
                    /\ SessionUnchanged
              /\ \A p \in { <<"g", "o", "t", "o", ":">>, <<"c", "l", "i", "c", "k", ":">>, <<"t", "y", "p", "e", ":">> } : startsWith(c, p) =>
                    /\ \A k \in 1..Len(sel.args) : standsIn(sel.args[k], c)
                    /\ resultFits(sel, EndingResult)
              /\ startsWith(c, <<"s", "c", "r", "o", "l", "l", ":">>) =>
                    /\ sel.args = << toLowerCase(trim(SubSeq(c, 8, Len(c)))) >>
                    /\ resultFits(sel, EndingResult)
                    /\ (sel.args[1] \in ScrollDirections) = (numCalls(c) = 1)]_vars

\* click:Sign in was answered with the argument in its letter case
C34_Witness ==
    /\ log = << <<"c", "l", "i", "c", "k", ":", "S", "i", "g", "n", " ", "i", "n">> >>
    /\ executing = <<>>
    /\ results = << <<"C", "l", "i", "c", "k", "e", "d", ":", " ", "S", "i", "g", "n", " ", "i", "n">> >>
    /\ resultFile = <<"C", "l", "i", "c", "k", "e", "d", ":", " ", "S", "i", "g", "n", " ", "i", "n">>


\* the content a is the text b with white space before and after it
sameButWhiteSpace(a, b) ==
    \E i \in 1..(Len(a) + 1) : \E j \in (i - 1)..Len(a) :
        /\ SubSeq(a, i, j) = b
        /\ \A k \in 1..Len(a) : (k < i \/ k > j) => a[k] \in WhiteSpace

\* the two texts differ, and only in the case of their letters
differOnlyInCase(a, b) == a # b /\ toLowerCase(a) = toLowerCase(b)

\* the loop is at a read of the command file
AtRead == pc = "sleep" /\ exitCode = Alive /\ running /\ cmdFile # Missing

\* C35: no dispatch happens while the command file holds the text dispatched
\* last with white space around it, so the log never holds a text twice in a
\* row; a content that differs from the text dispatched last only in the
\* letter case is dispatched at the next read, and when both are spellings of
\* an exact tag the second dispatch does what the first text does.
C35_ExactComparison ==
    /\ [][DispatchStep => ~sameButWhiteSpace(cmdFile, lastCommand)]_vars
    /\ [](\A i \in 1..(Len(log) - 1) : ~sameButWhiteSpace(log[i + 1], log[i]))
    /\ []((AtRead /\ differOnlyInCase(trim(cmdFile), lastCommand)) => ENABLED PollDispatch)
    /\ [][(CompletionStep /\ Len(log) >= 2
             /\ differOnlyInCase(log[Len(log)], log[Len(log) - 1])
             /\ toLowerCase(EndingCommand) \in ExactTags) =>
                EndingResult =
                    executeCommand(log[Len(log) - 1], Head(executing).env, pageUrl)]_vars

\* title and then TITLE were dispatched and both were answered with the title
\* of the page
C35_Witness ==
    /\ log = << <<"t", "i", "t", "l", "e">>, <<"T", "I", "T", "L", "E">> >>
    /\ executing = <<>>
    /\ results = << <<"T", "i", "t", "l", "e", ":", " ">> \o PageTitle, <<"T", "i", "t", "l", "e", ":", " ">> \o PageTitle >>
    /\ writesLeft = 0

=============================================================================
